---- MODULE Spec2Model ----
(***************************************************************************)
(* Model of the conversation engine of src/chatbot.py: SessionMemory, the  *)
(* JSON stores behind ProductTools / SalesTools, the LangGraph nodes of    *)
(* ChatbotNodes and EnhancedChatbot.process_message / reset.               *)
(*                                                                         *)
(* One step of the model is one whole call of process_message (the graph   *)
(* understand -> validate -> route -> handler -> END runs to completion)   *)
(* or one call of reset.                                                   *)
(***************************************************************************)
EXTENDS Integers, Sequences, FiniteSets, TLC

(***************************************************************************)
(* Python values.  A JSON scalar is a tagged record so that values of      *)
(* different Python types can be compared; Absent marks a key that is not  *)
(* in a dict (so that dict.get(k), dict.get(k, default) and `k in dict`    *)
(* can be told apart).                                                     *)
(***************************************************************************)
S(x) == [k |-> "str", s |-> x, n |-> 0]

N(i) == [k |-> "num", s |-> "", n |-> i]

None == [k |-> "none", s |-> "", n |-> 0]

Absent == [k |-> "absent", s |-> "", n |-> 0]

\* Python truthiness of a scalar: None, "" and 0 are falsy.
Truthy(v) == \/ (v.k = "str" /\ v.s # "")
             \/ (v.k = "num" /\ v.n # 0)

\* dict.get(key): None when the key is absent.
Get(d, key) == IF d[key].k = "absent" THEN None ELSE d[key]

\* dict.get(key, default)
GetOr(d, key, default) == IF d[key].k = "absent" THEN default ELSE d[key]

\* key in dict
HasKey(d, key) == d[key].k # "absent"

(***************************************************************************)
(* Python strings.  The texts and keywords the model uses are atoms; Chars *)
(* gives the character sequence of each, so that `word in text` and        *)
(* str.lower() are computed character by character.                        *)
(***************************************************************************)
Chars(str) ==
  CASE str = "yes" -> <<"y","e","s">>
    [] str = "Yes" -> <<"Y","e","s">>
    [] str = "confirm" -> <<"c","o","n","f","i","r","m">>
    [] str = "ok" -> <<"o","k">>
    [] str = "proceed" -> <<"p","r","o","c","e","e","d">>
    [] str = "sure" -> <<"s","u","r","e">>
    [] str = "no" -> <<"n","o">>
    [] str = "cancel" -> <<"c","a","n","c","e","l">>
    [] str = "abort" -> <<"a","b","o","r","t">>
    [] str = "ok no" -> <<"o","k"," ","n","o">>
    [] str = "hi" -> <<"h","i">>
    [] str = "search" -> <<"s","e","a","r","c","h">>
    [] str = "find" -> <<"f","i","n","d">>
    [] str = "show" -> <<"s","h","o","w">>
    [] str = "look" -> <<"l","o","o","k">>
    [] str = "product" -> <<"p","r","o","d","u","c","t">>
    [] str = "sale" -> <<"s","a","l","e">>
    [] str = "order" -> <<"o","r","d","e","r">>
    [] str = "purchase" -> <<"p","u","r","c","h","a","s","e">>
    [] str = "transaction" -> <<"t","r","a","n","s","a","c","t","i","o","n">>
    [] str = "recommend" -> <<"r","e","c","o","m","m","e","n","d">>
    [] str = "suggest" -> <<"s","u","g","g","e","s","t">>
    [] str = "best" -> <<"b","e","s","t">>
    [] str = "top" -> <<"t","o","p">>
    [] str = "analytics" -> <<"a","n","a","l","y","t","i","c","s">>
    [] str = "report" -> <<"r","e","p","o","r","t">>
    [] str = "summary" -> <<"s","u","m","m","a","r","y">>
    [] str = "stats" -> <<"s","t","a","t","s">>
    [] str = "vendor" -> <<"v","e","n","d","o","r">>
    [] str = "supplier" -> <<"s","u","p","p","l","i","e","r">>
    [] str = "create" -> <<"c","r","e","a","t","e">>
    [] str = "add" -> <<"a","d","d">>
    [] str = "add product" -> <<"a","d","d"," ","p","r","o","d","u","c","t">>
    [] str = "add sale" -> <<"a","d","d"," ","s","a","l","e">>
    [] str = "add item" -> <<"a","d","d"," ","i","t","e","m">>
    [] str = "Widget" -> <<"W","i","d","g","e","t">>
    [] str = "Phone" -> <<"P","h","o","n","e">>
    [] str = "phone" -> <<"p","h","o","n","e">>
    [] str = "zzz" -> <<"z","z","z">>
    [] str = "Electronics" -> <<"E","l","e","c","t","r","o","n","i","c","s">>
    [] str = "Home" -> <<"H","o","m","e">>
    [] str = "Acme" -> <<"A","c","m","e">>
    [] str = "" -> << >>

\* str.lower() on one character (the upper-case letters the model uses).
LowerChar(c) ==
  CASE c = "Y" -> "y"
    [] c = "W" -> "w"
    [] c = "P" -> "p"
    [] c = "E" -> "e"
    [] c = "H" -> "h"
    [] c = "A" -> "a"
    [] OTHER -> c

\* str.lower() as a character sequence.
Lower(cs) == [i \in 1..Len(cs) |-> LowerChar(cs[i])]

\* Python `word in text` on character sequences: word occurs as a substring.
SubstrOf(word, text) ==
  \E i \in 0..(Len(text) - Len(word)) :
     \A j \in 1..Len(word) : text[i + j] = word[j]

\* any(word in text.lower() for word in words)
AnyWordIn(words, str) ==
  LET low == Lower(Chars(str))
  IN \E w \in words : SubstrOf(Chars(w), low)

(***************************************************************************)
(* Records of the stores.  A product carries the fields search and         *)
(* validation read (id, name, category, brand, description); a sale the    *)
(* fields validate_sale_data and search_sales read plus created_at.        *)
(***************************************************************************)
Product(id, name, category, brand) ==
  [id |-> id, name |-> name, category |-> category, brand |-> brand,
   description |-> S("")]

Sale(id, customer, total, status, created) ==
  [id |-> id, customer_id |-> customer, total |-> total,
   payment_status |-> status, created_at |-> created]

valid_categories == <<"Electronics", "Grocery", "Fashion", "Home", "Sports">>

valid_statuses == <<"PAID", "PENDING", "CANCELLED">>

\* x in list, for a Python value x and a list of strings
InList(v, list) == v.k = "str" /\ \E i \in 1..Len(list) : list[i] = v.s

\* The catalog and the sales file as initialize_sample_data leaves them
\* (one sample record of each kept), and the vendor file.
InitialProducts == << Product(S("p1"), S("Phone"), S("Electronics"), S("Acme")) >>

InitialSales == << Sale(S("s1"), S("c1"), N(5), S("PAID"), S("t0")) >>

InitialVendors == << [id |-> S("v1"), name |-> S("Acme")] >>

\* datetime.now() as read by one turn: two calls may or may not agree.
Timestamps == {"t1", "t2"}

(***************************************************************************)
(* save_json: the write succeeds; or open() fails and the file is left as  *)
(* it was; or the dump fails after open(filepath, 'w') truncated the file, *)
(* and load_json then reads the default empty database.                    *)
(***************************************************************************)
SaveOutcomes == {"ok", "open_fail", "write_fail"}

save_json(old, new, outcome) ==
  CASE outcome = "ok" -> [success |-> TRUE, file |-> new]
    [] outcome = "open_fail" -> [success |-> FALSE, file |-> old]
    [] outcome = "write_fail" -> [success |-> FALSE, file |-> << >>]

(***************************************************************************)
(* ProductTools                                                            *)
(***************************************************************************)
\* str.lower() of product.get(field, ""): raises on None (a present null).
FieldLowerFails(v) == v.k # "str"

\* f"sale_{datetime.now().strftime(...)}"
default_sale_id(now) == IF now = "t1" THEN S("sale_t1") ELSE S("sale_t2")

RECURSIVE FilterSeq(_, _)
FilterSeq(seq, keep) ==
  IF seq = << >> THEN << >>
  ELSE IF Head(seq) \in keep THEN <<Head(seq)>> \o FilterSeq(Tail(seq), keep)
       ELSE FilterSeq(Tail(seq), keep)

\* Elements of a sequence as a set.
Range(seq) == {seq[i] : i \in 1..Len(seq)}

search_products(db, query, category) ==
  LET q == IF Truthy(query) THEN Lower(Chars(query.s)) ELSE << >>
      raises == \/ (Truthy(query) /\ query.k # "str")
                \/ \E i \in 1..Len(db) :
                      \/ FieldLowerFails(db[i].name)
                      \/ FieldLowerFails(db[i].brand)
                      \/ FieldLowerFails(db[i].category)
                      \/ FieldLowerFails(db[i].description)
      Match(p) == \/ SubstrOf(q, Lower(Chars(p.name.s)))
                  \/ SubstrOf(q, Lower(Chars(p.brand.s)))
                  \/ SubstrOf(q, Lower(Chars(p.category.s)))
                  \/ SubstrOf(q, Lower(Chars(p.description.s)))
      Keep(p) == Match(p) /\ ~(Truthy(category) /\ p.category # category)
  IN IF raises THEN [raised |-> TRUE, results |-> << >>]
     ELSE [raised |-> FALSE,
           results |-> FilterSeq(db, {p \in Range(db) : Keep(p)})]

\* The first product with that id, as a sequence of zero or one products
\* ({} when none).
get_product_by_id(db, product_id) ==
  LET hits == FilterSeq(db, {p \in Range(db) : p.id = product_id})
  IN IF hits = << >> THEN << >> ELSE <<Head(hits)>>

validate_product_data(product_data) ==
  (IF ~Truthy(product_data.id) THEN <<"Product ID is required">> ELSE << >>)
  \o (IF ~Truthy(product_data.name) THEN <<"Product name is required">> ELSE << >>)
  \o (IF ~Truthy(product_data.category) THEN <<"Category is required">> ELSE << >>)
  \o (IF ~InList(product_data.category, valid_categories)
      THEN <<"Category must be one of the valid categories">> ELSE << >>)

\* Mutant of create_product: the record is not validated before the
\* duplicate check and the write.
create_product_NoValidation(db, product_data, outcome) ==
  IF \E i \in 1..Len(db) : db[i].id = product_data.id
    THEN [success |-> FALSE, message |-> "Product ID already exists",
          errors |-> <<"Duplicate ID">>, db |-> db, saved |-> FALSE]
    ELSE [success |-> save_json(db, Append(db, product_data), outcome).success,
          message |-> IF save_json(db, Append(db, product_data), outcome).success
                        THEN "Product created successfully" ELSE "Failed to save",
          errors |-> << >>,
          db |-> save_json(db, Append(db, product_data), outcome).file,
          saved |-> TRUE]

\* Mutant of create_product: no duplicate-id check.
create_product_NoDuplicateCheck(db, product_data, outcome) ==
  IF validate_product_data(product_data) # << >>
    THEN [success |-> FALSE, message |-> "Validation failed",
          errors |-> validate_product_data(product_data), db |-> db,
          saved |-> FALSE]
    ELSE [success |-> save_json(db, Append(db, product_data), outcome).success,
          message |-> IF save_json(db, Append(db, product_data), outcome).success
                        THEN "Product created successfully" ELSE "Failed to save",
          errors |-> << >>,
          db |-> save_json(db, Append(db, product_data), outcome).file,
          saved |-> TRUE]

create_product(db, product_data, outcome) ==
  LET errors == validate_product_data(product_data)
      saved == save_json(db, Append(db, product_data), outcome)
  IN IF errors # << >>
       THEN [success |-> FALSE, message |-> "Validation failed",
             errors |-> errors, db |-> db, saved |-> FALSE]
     ELSE IF \E i \in 1..Len(db) : db[i].id = product_data.id
       THEN [success |-> FALSE, message |-> "Product ID already exists",
             errors |-> <<"Duplicate ID">>, db |-> db, saved |-> FALSE]
     ELSE [success |-> saved.success,
           message |-> IF saved.success THEN "Product created successfully"
                       ELSE "Failed to save",
           errors |-> << >>, db |-> saved.file, saved |-> TRUE]

(***************************************************************************)
(* SalesTools                                                              *)
(***************************************************************************)
search_sales(db, customer_id, status) ==
  FilterSeq(db, {s \in Range(db) :
                   /\ ~(Truthy(customer_id) /\ s.customer_id # customer_id)
                   /\ ~(Truthy(status) /\ s.payment_status # status)})

\* `not total or total <= 0` raises TypeError when total is a non-empty str.
SaleTotalRaises(sale_data) == Truthy(sale_data.total) /\ sale_data.total.k # "num"

validate_sale_data(sale_data) ==
  (IF ~Truthy(sale_data.id) THEN <<"Sale ID is required">> ELSE << >>)
  \o (IF ~Truthy(sale_data.customer_id) THEN <<"Customer ID is required">> ELSE << >>)
  \o (IF ~Truthy(sale_data.total) \/ sale_data.total.n <= 0
      THEN <<"Total amount must be greater than 0">> ELSE << >>)
  \o (IF ~InList(sale_data.payment_status, valid_statuses)
      THEN <<"Payment status must be one of the valid statuses">> ELSE << >>)

\* Mutant of create_sale: a sale id already in the file is rejected, as
\* create_product does for products.
create_sale_RejectsDuplicate(db, sale_data, outcome, now) ==
  IF validate_sale_data(sale_data) # << >>
    THEN [success |-> FALSE, message |-> "Validation failed",
          errors |-> validate_sale_data(sale_data), db |-> db, saved |-> FALSE]
  ELSE IF \E i \in 1..Len(db) : db[i].id = sale_data.id
    THEN [success |-> FALSE, message |-> "Sale ID already exists",
          errors |-> <<"Duplicate ID">>, db |-> db, saved |-> FALSE]
  ELSE [success |->
          save_json(db, Append(db, [sale_data EXCEPT !.created_at = S(now)]),
                    outcome).success,
        message |->
          IF save_json(db, Append(db, [sale_data EXCEPT !.created_at = S(now)]),
                       outcome).success
            THEN "Sale created successfully" ELSE "Failed to save",
        errors |-> << >>,
        db |-> save_json(db, Append(db, [sale_data EXCEPT !.created_at = S(now)]),
                         outcome).file,
        saved |-> TRUE]

create_sale(db, sale_data, outcome, now) ==
  LET errors == validate_sale_data(sale_data)
      stamped == [sale_data EXCEPT !.created_at = S(now)]
      saved == save_json(db, Append(db, stamped), outcome)
  IN IF errors # << >>
       THEN [success |-> FALSE, message |-> "Validation failed",
             errors |-> errors, db |-> db, saved |-> FALSE]
     ELSE [success |-> saved.success,
           message |-> IF saved.success THEN "Sale created successfully"
                       ELSE "Failed to save",
           errors |-> << >>, db |-> saved.file, saved |-> TRUE]

(***************************************************************************)
(* Entity maps.  The entity dict of a turn is a record over the keys the   *)
(* nodes read; a key the dict does not have is Absent.  state["entities"]  *)
(* is such a dict, or the pending action dict itself (keys "action" and    *)
(* "data") after the confirmation override, or null.                       *)
(***************************************************************************)
EmptyEntities ==
  [product_id |-> Absent, product_name |-> Absent, category |-> Absent,
   brand |-> Absent, status |-> Absent, customer_id |-> Absent,
   sale_id |-> Absent, total |-> Absent, vendor_id |-> Absent]

EntMap(m) == [kind |-> "map", map |-> m, pending |-> << >>]

EntPending(action) == [kind |-> "pending", map |-> EmptyEntities, pending |-> <<action>>]

EntNull == [kind |-> "null", map |-> EmptyEntities, pending |-> << >>]

(***************************************************************************)
(* Responses.  A response text is one of the code's templates (kind) with  *)
(* the values it interpolates: a store message, the listed errors, the     *)
(* records it enumerates.                                                  *)
(***************************************************************************)
Resp(kind, message, errors, data) ==
  [kind |-> kind, message |-> message, errors |-> errors, data |-> data]

\* agent_response = "" as process_message initialises it
EmptyResponse == Resp("empty", "", << >>, << >>)

\* the content of a user message
UserText(text) == Resp("user_text", text, << >>, << >>)

NOTHING_PENDING == Resp("nothing_pending", "", << >>, << >>)

CANCELLED_ACK == Resp("cancelled", "", << >>, << >>)

\* The templates that end in "(Yes/No)".
EndsWithYesNoPrompt(resp) == resp.kind \in {"product_confirm_prompt", "sale_confirm_prompt"}

(***************************************************************************)
(* SessionMemory                                                           *)
(***************************************************************************)
\* SessionMemory.__init__ / reset: the construction-time context.
\* session_start (a timestamp no node reads) is kept as a fixed token.
DefaultContext ==
  [last_product |-> None,
   last_product_id |-> None,
   last_filters |-> EntMap(EmptyEntities),
   last_search_results |-> << >>,
   current_topic |-> None,
   user_preferences |-> [price_range |-> None, preferred_categories |-> << >>,
                         preferred_brands |-> << >>],
   session_start |-> S("start"),
   customer_id |-> None,
   last_sale |-> << >>,
   conversation_count |-> 0]

\* The session memory as one record: log, context, pending stack.
NewMemory == [messages |-> << >>, context |-> DefaultContext, pending_actions |-> << >>]

\* Mutant of add_message: the message is logged without the counter moving.
add_message_NoCount(mem, role, content) ==
  [mem EXCEPT !.messages = Append(@, [role |-> role, content |-> content])]

add_message(mem, role, content) ==
  [mem EXCEPT !.messages = Append(@, [role |-> role, content |-> content]),
              !.context.conversation_count = @ + 1]

update_context(mem, key, value) == [mem EXCEPT !.context[key] = value]

add_pending_action(mem, action) == [mem EXCEPT !.pending_actions = Append(@, action)]

\* Mutant of get_pending_action: the oldest pending action is returned.
get_pending_action_Oldest(mem) ==
  IF mem.pending_actions = << >> THEN << >>
  ELSE << mem.pending_actions[1] >>

\* The most recent pending action as a sequence of zero or one actions
\* (None when the stack is empty).
get_pending_action(mem) ==
  IF mem.pending_actions = << >> THEN << >>
  ELSE << mem.pending_actions[Len(mem.pending_actions)] >>

\* Mutant of clear_pending_actions: the stack is left as it is.
clear_pending_actions_Keeps(mem) == mem

clear_pending_actions(mem) == [mem EXCEPT !.pending_actions = << >>]

\* Mutant of reset: the pending stack survives the reset.
reset_memory_KeepsPending(mem) ==
  [NewMemory EXCEPT !.pending_actions = mem.pending_actions]

\* Mutant of reset: the rebuilt context lacks the last_sale key.
reset_memory_DropsKey(mem) ==
  [NewMemory EXCEPT !.context = [k \in DOMAIN DefaultContext \ {"last_sale"}
                                  |-> DefaultContext[k]]]

reset_memory(mem) == NewMemory

(***************************************************************************)
(* NaturalLanguageUnderstanding                                            *)
(***************************************************************************)
\* Mutant of _fallback_intent_detection: the create branch is tested before
\* the search branches.
fallback_intent_detection_CreateFirst(user_input) ==
  [is_dict |-> TRUE, has_intent |-> TRUE,
   intent |->
     IF AnyWordIn({"create", "add"}, user_input)
          /\ AnyWordIn({"product"}, user_input) THEN "create_product"
     ELSE IF AnyWordIn({"create", "add"}, user_input)
          /\ AnyWordIn({"sale"}, user_input) THEN "create_sale"
     ELSE IF AnyWordIn({"search", "find", "show", "look", "product"}, user_input)
       THEN "search_product"
     ELSE IF AnyWordIn({"sale", "order", "purchase", "transaction"}, user_input)
       THEN "search_sales"
     ELSE IF AnyWordIn({"recommend", "suggest", "best", "top"}, user_input)
       THEN "get_recommendations"
     ELSE IF AnyWordIn({"analytics", "report", "summary", "stats"}, user_input)
       THEN "get_analytics"
     ELSE IF AnyWordIn({"vendor", "supplier"}, user_input)
       THEN "vendor_query"
     ELSE "general_chat",
   entities |-> EntMap(EmptyEntities), has_entities |-> TRUE]

\* _fallback_intent_detection: keyword matching, entities always {}.
fallback_intent_detection(user_input) ==
  LET intent ==
        IF AnyWordIn({"search", "find", "show", "look", "product"}, user_input)
          THEN "search_product"
        ELSE IF AnyWordIn({"sale", "order", "purchase", "transaction"}, user_input)
          THEN "search_sales"
        ELSE IF AnyWordIn({"recommend", "suggest", "best", "top"}, user_input)
          THEN "get_recommendations"
        ELSE IF AnyWordIn({"analytics", "report", "summary", "stats"}, user_input)
          THEN "get_analytics"
        ELSE IF AnyWordIn({"vendor", "supplier"}, user_input)
          THEN "vendor_query"
        ELSE IF AnyWordIn({"create", "add"}, user_input)
          THEN IF AnyWordIn({"product"}, user_input) THEN "create_product"
               ELSE IF AnyWordIn({"sale"}, user_input) THEN "create_sale"
               ELSE "general_chat"
        ELSE "general_chat"
  IN [is_dict |-> TRUE, has_intent |-> TRUE, intent |-> intent,
      entities |-> EntMap(EmptyEntities), has_entities |-> TRUE]

\* The keyword lists of understand_input.
ConfirmWords == {"yes", "confirm", "ok", "proceed", "sure"}

CancelWords == {"no", "cancel", "abort"}

\* The keyword tests of understand_input and the fallback's answer, per text
\* of the model.
Texts ==
  {"yes", "no", "ok no", "find", "add product", "add sale", "top", "stats",
   "vendor", "hi"}

HasConfirmWord == [t \in Texts |-> AnyWordIn(ConfirmWords, t)]

HasCancelWord == [t \in Texts |-> AnyWordIn(CancelWords, t)]

FallbackResult == [t \in Texts |-> fallback_intent_detection(t)]

(***************************************************************************)
(* What the external classifier call can come to, after the code-fence     *)
(* stripping and json.loads of extract_intent_and_entities:                *)
(*   "error"   the call or the parse raised (the except branch runs);      *)
(*   "nondict" the text parsed to JSON that is no object;                  *)
(*   "dict"    an object, whose "intent" / "entities" keys may be missing  *)
(*             or null.                                                    *)
(***************************************************************************)
NluError == [kind |-> "error", has_intent |-> FALSE, intent |-> "",
             has_entities |-> FALSE, entities |-> EntNull]

NluNonDict == [kind |-> "nondict", has_intent |-> FALSE, intent |-> "",
               has_entities |-> FALSE, entities |-> EntNull]

NluDict(intent, entities) ==
  [kind |-> "dict", has_intent |-> TRUE, intent |-> intent,
   has_entities |-> TRUE, entities |-> entities]

\* An object without the "intent" and "entities" keys.
NluBareDict == [kind |-> "dict", has_intent |-> FALSE, intent |-> "",
                has_entities |-> FALSE, entities |-> EntNull]

\* The classifier was not called in this turn.
NluNotCalled == [kind |-> "not_called", has_intent |-> FALSE, intent |-> "",
                 has_entities |-> FALSE, entities |-> EntNull]

\* Mutant of extract_intent_and_entities: the fallback consults the session
\* and, while an action is pending, takes the text as a confirmation.
extract_intent_and_entities_ContextFallback(user_input, session_memory, nlu) ==
  IF nlu.kind = "error"
    THEN IF session_memory.pending_actions # << >>
           THEN [FallbackResult[user_input] EXCEPT !.intent = "confirm_action"]
           ELSE FallbackResult[user_input]
  ELSE [is_dict |-> nlu.kind = "dict", has_intent |-> nlu.has_intent,
        intent |-> nlu.intent, entities |-> nlu.entities,
        has_entities |-> nlu.has_entities]

\* extract_intent_and_entities: the parsed result, or the fallback's.  The
\* session memory goes into the prompt only.
extract_intent_and_entities(user_input, session_memory, nlu) ==
  IF nlu.kind = "error" THEN FallbackResult[user_input]
  ELSE [is_dict |-> nlu.kind = "dict", has_intent |-> nlu.has_intent,
        intent |-> nlu.intent, entities |-> nlu.entities,
        has_entities |-> nlu.has_entities]

(***************************************************************************)
(* ChatbotNodes: understand, validate, route                               *)
(***************************************************************************)
\* The tail of understand_input: the classifier's result into the state.
\* nlu_result.get on a list, a string or a number raises AttributeError.
FromNluResult(result) ==
  IF ~result.is_dict
    THEN [raised |-> TRUE, intent |-> "None",
          entities |-> EntMap(EmptyEntities), nlu_called |-> TRUE]
    ELSE [raised |-> FALSE,
          intent |-> IF result.has_intent THEN result.intent ELSE "general_chat",
          entities |-> IF result.has_entities THEN result.entities
                       ELSE EntMap(EmptyEntities),
          nlu_called |-> TRUE]

\* Mutant of understand_input: a confirmation token is not looked for, the
\* text goes to the negation test and the classifier.
understand_input_NoConfirmOverride(user_input, mem, nlu) ==
  IF HasCancelWord[user_input]
    THEN [raised |-> FALSE, intent |-> "cancel_action",
          entities |-> EntMap(EmptyEntities), nlu_called |-> FALSE]
  ELSE FromNluResult(extract_intent_and_entities(user_input, mem, nlu))

\* Mutant of understand_input: the negation test comes first.
understand_input_CancelFirst(user_input, mem, nlu) ==
  IF HasCancelWord[user_input]
    THEN [raised |-> FALSE, intent |-> "cancel_action",
          entities |-> EntMap(EmptyEntities), nlu_called |-> FALSE]
  ELSE IF HasConfirmWord[user_input] /\ get_pending_action(mem) # << >>
    THEN [raised |-> FALSE, intent |-> "confirm_action",
          entities |-> EntPending(get_pending_action(mem)[1]),
          nlu_called |-> FALSE]
  ELSE FromNluResult(extract_intent_and_entities(user_input, mem, nlu))

\* Mutant of understand_input: a negation token counts only while an action
\* is pending.
understand_input_CancelNeedsPending(user_input, mem, nlu) ==
  IF HasConfirmWord[user_input] /\ get_pending_action(mem) # << >>
    THEN [raised |-> FALSE, intent |-> "confirm_action",
          entities |-> EntPending(get_pending_action(mem)[1]),
          nlu_called |-> FALSE]
  ELSE IF HasCancelWord[user_input] /\ get_pending_action(mem) # << >>
    THEN [raised |-> FALSE, intent |-> "cancel_action",
          entities |-> EntMap(EmptyEntities), nlu_called |-> FALSE]
  ELSE FromNluResult(extract_intent_and_entities(user_input, mem, nlu))

\* understand_input.  state["entities"] starts as {} (process_message).
understand_input(user_input, mem, nlu) ==
  IF HasConfirmWord[user_input] /\ get_pending_action(mem) # << >>
    THEN [raised |-> FALSE, intent |-> "confirm_action",
          entities |-> EntPending(get_pending_action(mem)[1]),
          nlu_called |-> FALSE]
  ELSE IF HasCancelWord[user_input]
    THEN [raised |-> FALSE, intent |-> "cancel_action",
          entities |-> EntMap(EmptyEntities), nlu_called |-> FALSE]
  ELSE FromNluResult(extract_intent_and_entities(user_input, mem, nlu))

\* Mutant of validate_input: the category is left to the handlers.
validate_input_NoCategoryCheck(entities) ==
  IF entities.kind = "null" THEN [raised |-> TRUE, errors |-> << >>]
  ELSE [raised |-> FALSE,
        errors |->
          IF HasKey(entities.map, "status") /\ Truthy(entities.map.status)
             /\ ~InList(entities.map.status, valid_statuses)
          THEN <<"Invalid status">> ELSE << >>]

\* Mutant of validate_input: the status is looked at only when the category
\* passed.
validate_input_FirstErrorOnly(entities) ==
  IF entities.kind = "null" THEN [raised |-> TRUE, errors |-> << >>]
  ELSE [raised |-> FALSE,
        errors |->
          IF HasKey(entities.map, "category") /\ Truthy(entities.map.category)
             /\ ~InList(entities.map.category, valid_categories)
          THEN <<"Invalid category">>
          ELSE IF HasKey(entities.map, "status") /\ Truthy(entities.map.status)
                  /\ ~InList(entities.map.status, valid_statuses)
          THEN <<"Invalid status">> ELSE << >>]

\* Mutant of validate_input: a turn whose entities carry no category is
\* rejected as well.
validate_input_RequiresCategory(entities) ==
  IF entities.kind = "null" THEN [raised |-> TRUE, errors |-> << >>]
  ELSE [raised |-> FALSE,
        errors |->
          (IF ~(HasKey(entities.map, "category") /\ Truthy(entities.map.category))
              \/ ~InList(entities.map.category, valid_categories)
           THEN <<"Invalid category">> ELSE << >>)
          \o
          (IF HasKey(entities.map, "status") /\ Truthy(entities.map.status)
              /\ ~InList(entities.map.status, valid_statuses)
           THEN <<"Invalid status">> ELSE << >>)]

\* validate_input: the error list, or TypeError on `"category" in None`.
validate_input(entities) ==
  LET e == entities.map
  IN IF entities.kind = "null" THEN [raised |-> TRUE, errors |-> << >>]
     ELSE [raised |-> FALSE,
           errors |->
             (IF HasKey(e, "category") /\ Truthy(e.category)
                 /\ ~InList(e.category, valid_categories)
              THEN <<"Invalid category">> ELSE << >>)
             \o
             (IF HasKey(e, "status") /\ Truthy(e.status)
                 /\ ~InList(e.status, valid_statuses)
              THEN <<"Invalid status">> ELSE << >>)]

\* Mutant of route_to_agent: get_recommendations goes to the product agent,
\* whose node has the branch for it.
route_to_agent_RecsToProduct(intent, validation_errors) ==
  IF validation_errors # << >> THEN "handle_validation_errors"
  ELSE IF intent \in {"search_product", "get_product_details", "create_product",
                      "update_product", "get_recommendations"} THEN "product_agent"
  ELSE IF intent \in {"search_sales", "create_sale", "update_sale"} THEN "sales_agent"
  ELSE IF intent \in {"get_analytics"} THEN "analytics_agent"
  ELSE IF intent \in {"vendor_query"} THEN "vendor_agent"
  ELSE IF intent \in {"confirm_action"} THEN "execute_confirmation"
  ELSE IF intent \in {"cancel_action"} THEN "handle_cancellation"
  ELSE "general_agent"

\* Mutant of route_to_agent: confirm and cancel are dispatched before the
\* validation errors are looked at.
route_to_agent_ErrorsLast(intent, validation_errors) ==
  IF intent \in {"confirm_action"} THEN "execute_confirmation"
  ELSE IF intent \in {"cancel_action"} THEN "handle_cancellation"
  ELSE IF validation_errors # << >> THEN "handle_validation_errors"
  ELSE IF intent \in {"search_product", "get_product_details", "create_product",
                      "update_product"} THEN "product_agent"
  ELSE IF intent \in {"search_sales", "create_sale", "update_sale"} THEN "sales_agent"
  ELSE IF intent \in {"get_analytics", "get_recommendations"} THEN "analytics_agent"
  ELSE IF intent \in {"vendor_query"} THEN "vendor_agent"
  ELSE "general_agent"

route_to_agent(intent, validation_errors) ==
  IF validation_errors # << >> THEN "handle_validation_errors"
  ELSE IF intent \in {"search_product", "get_product_details", "create_product",
                      "update_product"} THEN "product_agent"
  ELSE IF intent \in {"search_sales", "create_sale", "update_sale"} THEN "sales_agent"
  ELSE IF intent \in {"get_analytics", "get_recommendations"} THEN "analytics_agent"
  ELSE IF intent \in {"vendor_query"} THEN "vendor_agent"
  ELSE IF intent \in {"confirm_action"} THEN "execute_confirmation"
  ELSE IF intent \in {"cancel_action"} THEN "handle_cancellation"
  ELSE "general_agent"

(***************************************************************************)
(* ChatbotNodes: the handler nodes.  A handler takes the turn's intent and *)
(* entities and the world w = [mem, products, sales, vendors, staged,      *)
(* dispatched] and gives [raised, agent_response, w]: whether it raised,   *)
(* the response it set ("" when it set none) and the world it leaves.      *)
(* staged counts the add_pending_action calls so far and tags each staged  *)
(* action; dispatched lists the tags of the actions handed to a store      *)
(* mutation call.  Both are history, not program state.                    *)
(***************************************************************************)
Done(response, w) == [raised |-> FALSE, agent_response |-> response, w |-> w]

Raised(w) == [raised |-> TRUE, agent_response |-> EmptyResponse, w |-> w]

\* self.session_memory.add_pending_action({"action": kind, "data": data})
Stage(w, kind, data) ==
  [w EXCEPT !.mem = add_pending_action(@, [action |-> kind, data |-> data,
                                            tag |-> w.staged + 1]),
            !.staged = @ + 1]

\* The first min(limit, len) elements of a list: list[:limit]
Take(seq, limit) == SubSeq(seq, 1, IF Len(seq) < limit THEN Len(seq) ELSE limit)

\* Mutant of SearchReply: a search starts a new topic and drops whatever was
\* pending.
SearchReply_Clears(found, entities, w) ==
  IF found.raised THEN Raised(w)
  ELSE Done(IF found.results # << >>
              THEN Resp("product_results", "", << >>, found.results)
              ELSE Resp("no_products", "", << >>, << >>),
            [w EXCEPT !.mem = clear_pending_actions(
                                update_context(
                                  update_context(@, "last_search_results",
                                                 found.results),
                                  "last_filters", entities))])

\* search_product, after the search: context update and reply.
SearchReply(found, entities, w) ==
  IF found.raised THEN Raised(w)
  ELSE Done(IF found.results # << >>
              THEN Resp("product_results", "", << >>, found.results)
              ELSE Resp("no_products", "", << >>, << >>),
            [w EXCEPT !.mem = update_context(
                                update_context(@, "last_search_results", found.results),
                                "last_filters", entities)])

\* get_product_details, once the id is chosen.
DetailsReply(product_id, w) ==
  IF Truthy(product_id)
    THEN IF get_product_by_id(w.products, product_id) # << >>
           THEN Done(Resp("product_details", "", << >>,
                          get_product_by_id(w.products, product_id)), w)
           ELSE Done(Resp("product_not_found", "", << >>, << >>), w)
    ELSE Done(Resp("ask_product_id", "", << >>, << >>), w)

\* Mutant of StageProductReply: a valid product is written to the catalog at
\* staging time, before any confirmation.
StageProductReply_Persists(product_data, errors, w) ==
  IF errors # << >>
    THEN Done(Resp("product_missing_info", "", errors, << >>), w)
    ELSE Done(Resp("product_confirm_prompt", "", << >>, <<product_data>>),
              [Stage(w, "create_product", product_data)
                 EXCEPT !.products = Append(@, product_data)])

\* Mutant of StageProductReply: the errors are listed but the candidate is
\* staged all the same.
StageProductReply_StagesInvalid(product_data, errors, w) ==
  IF errors # << >>
    THEN Done(Resp("product_missing_info", "", errors, << >>),
              Stage(w, "create_product", product_data))
    ELSE Done(Resp("product_confirm_prompt", "", << >>, <<product_data>>),
              Stage(w, "create_product", product_data))

\* create_product, after validate_product_data: error list or staging.
StageProductReply(product_data, errors, w) ==
  IF errors # << >>
    THEN Done(Resp("product_missing_info", "", errors, << >>), w)
    ELSE Done(Resp("product_confirm_prompt", "", << >>, <<product_data>>),
              Stage(w, "create_product", product_data))

\* get_recommendations, after recommend_products.
RecommendReply(recommendations, w) ==
  IF recommendations # << >>
    THEN Done(Resp("recommendations", "", << >>, recommendations), w)
    ELSE Done(Resp("no_recommendations", "", << >>, << >>), w)

\* AnalyticsTools.recommend_products(category, "rating", 5) over the fields
\* the model keeps (the rating order is not modelled).
recommend_products(db, category) ==
  Take(IF Truthy(category)
         THEN FilterSeq(db, {x \in Range(db) : x.category = category})
         ELSE db, 5)

\* The product dict create_product builds from the entities.
ProductFromEntities(e) ==
  Product(Get(e, "product_id"), Get(e, "product_name"), Get(e, "category"),
          Get(e, "brand"))

\* Mutant of product_agent_node: an update_product turn stages an update
\* action for confirmation.
product_agent_node_StagesUpdate(intent, entities, w, now) ==
  IF intent = "search_product" THEN
    SearchReply(search_products(w.products,
                                GetOr(entities.map, "product_name", S("")),
                                Get(entities.map, "category")),
                entities, w)
  ELSE IF intent = "get_product_details" THEN
    DetailsReply(IF ~Truthy(Get(entities.map, "product_id"))
                   THEN w.mem.context.last_product_id
                   ELSE Get(entities.map, "product_id"), w)
  ELSE IF intent = "create_product" THEN
    StageProductReply(ProductFromEntities(entities.map),
                      validate_product_data(ProductFromEntities(entities.map)), w)
  ELSE IF intent = "update_product" THEN
    Done(Resp("product_confirm_prompt", "", << >>,
              <<ProductFromEntities(entities.map)>>),
         Stage(w, "update_product", ProductFromEntities(entities.map)))
  ELSE IF intent = "get_recommendations" THEN
    RecommendReply(recommend_products(w.products, Get(entities.map, "category")), w)
  ELSE Done(EmptyResponse, w)

product_agent_node(intent, entities, w, now) ==
  IF intent = "search_product" THEN
    SearchReply(search_products(w.products,
                                GetOr(entities.map, "product_name", S("")),
                                Get(entities.map, "category")),
                entities, w)
  ELSE IF intent = "get_product_details" THEN
    DetailsReply(IF ~Truthy(Get(entities.map, "product_id"))
                   THEN w.mem.context.last_product_id
                   ELSE Get(entities.map, "product_id"), w)
  ELSE IF intent = "create_product" THEN
    StageProductReply(ProductFromEntities(entities.map),
                      validate_product_data(ProductFromEntities(entities.map)), w)
  ELSE IF intent = "get_recommendations" THEN
    RecommendReply(recommend_products(w.products, Get(entities.map, "category")), w)
  ELSE Done(EmptyResponse, w)

\* search_sales, after the search: context update and reply.
SalesReply(results, w) ==
  Done(IF results # << >>
         THEN Resp("sales_results", "", << >>, results)
         ELSE Resp("no_sales", "", << >>, << >>),
       [w EXCEPT !.mem = update_context(@, "last_sale",
                           IF results # << >> THEN <<results[1]>> ELSE << >>)])

\* Mutant of StageSaleReply: the errors are listed but the sale is staged
\* all the same.
StageSaleReply_StagesInvalid(sale_data, w) ==
  IF SaleTotalRaises(sale_data) THEN Raised(w)
  ELSE IF validate_sale_data(sale_data) # << >>
    THEN Done(Resp("sale_missing_info", "", validate_sale_data(sale_data), << >>),
              Stage(w, "create_sale", sale_data))
    ELSE Done(Resp("sale_confirm_prompt", "", << >>, <<sale_data>>),
              Stage(w, "create_sale", sale_data))

\* create_sale, after building sale_data: validation raises, lists errors
\* or passes and the sale is staged.
StageSaleReply(sale_data, w) ==
  IF SaleTotalRaises(sale_data) THEN Raised(w)
  ELSE IF validate_sale_data(sale_data) # << >>
    THEN Done(Resp("sale_missing_info", "", validate_sale_data(sale_data), << >>), w)
    ELSE Done(Resp("sale_confirm_prompt", "", << >>, <<sale_data>>),
              Stage(w, "create_sale", sale_data))

\* The sale dict create_sale builds from the entities.
SaleFromEntities(e, now) ==
  Sale(GetOr(e, "sale_id", default_sale_id(now)), Get(e, "customer_id"),
       GetOr(e, "total", N(0)), GetOr(e, "status", S("PENDING")), Absent)

sales_agent_node(intent, entities, w, now) ==
  IF intent = "search_sales" THEN
    SalesReply(search_sales(w.sales, Get(entities.map, "customer_id"),
                            Get(entities.map, "status")), w)
  ELSE IF intent = "create_sale" THEN
    StageSaleReply(SaleFromEntities(entities.map, now), w)
  ELSE Done(EmptyResponse, w)

analytics_agent_node(intent, entities, w) ==
  IF intent = "get_analytics"
    THEN Done(Resp("analytics_summary", "", << >>, w.sales), w)
    ELSE Done(EmptyResponse, w)

\* VendorTools.get_vendor_by_id as a sequence of zero or one vendors.
get_vendor_by_id(db, vendor_id) ==
  Take(FilterSeq(db, {v \in Range(db) : v.id = vendor_id}), 1)

vendor_agent_node(intent, entities, w) ==
  IF Truthy(Get(entities.map, "vendor_id"))
    THEN IF get_vendor_by_id(w.vendors, entities.map.vendor_id) # << >>
           THEN Done(Resp("vendor_details", "", << >>,
                          get_vendor_by_id(w.vendors, entities.map.vendor_id)), w)
           ELSE Done(Resp("vendor_not_found", "", << >>, << >>), w)
    ELSE IF w.vendors # << >>
           THEN Done(Resp("vendor_list", "", << >>, w.vendors), w)
           ELSE Done(Resp("no_vendors", "", << >>, << >>), w)

\* The text-completion call returns a string or raises.
GenOutcomes == {"text", "error"}

general_agent_node(user_input, w, gen) ==
  IF gen = "text" THEN Done(Resp("generated_text", "", << >>, << >>), w)
  ELSE Done(Resp("general_help", "", << >>, << >>), w)

\* Mutant of CommitReply: the pending action is kept when the store call
\* failed, to be retried.
CommitReply_KeepsOnFailure(r, action, store, ok_kind, fail_kind, w) ==
  Done(IF r.success THEN Resp(ok_kind, r.message, << >>, <<action.data>>)
       ELSE Resp(fail_kind, r.message, r.errors, << >>),
       [w EXCEPT ![store] = r.db,
                 !.dispatched = Append(@, action.tag),
                 !.mem = IF r.success THEN clear_pending_actions(@) ELSE @])

\* The executor after a store call r = [success, message, errors, db]: the
\* reply, the store written to file (field products or sales), the tag of the
\* action recorded as dispatched, clear_pending_actions.
CommitReply(r, action, store, ok_kind, fail_kind, w) ==
  Done(IF r.success THEN Resp(ok_kind, r.message, << >>, <<action.data>>)
       ELSE Resp(fail_kind, r.message, r.errors, << >>),
       [w EXCEPT ![store] = r.db,
                 !.dispatched = Append(@, action.tag),
                 !.mem = clear_pending_actions(@)])

\* The executor's dispatch on the kind of the pending action.  No node
\* stages an update action, so the stores' update calls are modelled by
\* their not-found result.
Dispatch(action, w, save, now) ==
  IF action.action = "create_product" THEN
    CommitReply(create_product(w.products, action.data, save), action,
                "products", "product_created", "product_create_failed", w)
  ELSE IF action.action = "create_sale" THEN
    CommitReply(create_sale(w.sales, action.data, save, now), action,
                "sales", "sale_created", "sale_create_failed", w)
  ELSE IF action.action \in {"update_product", "update_sale"} THEN
    Done(Resp("update_failed", "not found", << >>, << >>),
         [w EXCEPT !.dispatched = Append(@, action.tag),
                   !.mem = clear_pending_actions(@)])
  ELSE Done(EmptyResponse, w)

\* Mutant of execute_confirmation_node: no test for an empty stack, so
\* pending.get on None raises.
execute_confirmation_node_FailsOnEmpty(w, save, now) ==
  IF get_pending_action(w.mem) = << >> THEN Raised(w)
  ELSE Dispatch(get_pending_action(w.mem)[1], w, save, now)

execute_confirmation_node(w, save, now) ==
  IF get_pending_action(w.mem) = << >> THEN Done(NOTHING_PENDING, w)
  ELSE Dispatch(get_pending_action(w.mem)[1], w, save, now)

\* Mutant of handle_cancellation_node: acknowledges without clearing.
handle_cancellation_node_NoClear(w) == Done(CANCELLED_ACK, w)

handle_cancellation_node(w) ==
  Done(CANCELLED_ACK, [w EXCEPT !.mem = clear_pending_actions(@)])

\* Mutant of handle_validation_errors_node: the rejected turn also drops
\* whatever was pending.
handle_validation_errors_node_Clears(validation_errors, w) ==
  Done(Resp("validation_errors", "", validation_errors, << >>),
       [w EXCEPT !.mem = clear_pending_actions(@)])

handle_validation_errors_node(validation_errors, w) ==
  Done(Resp("validation_errors", "", validation_errors, << >>), w)

(***************************************************************************)
(* The compiled graph (build_conversation_graph) and process_message.      *)
(***************************************************************************)
\* The node the conditional edge of "validate" leads to, run on the world.
RunHandler(route, user_input, intent, entities, errors, w, save, gen, now) ==
  CASE route = "product_agent" -> product_agent_node(intent, entities, w, now)
    [] route = "sales_agent" -> sales_agent_node(intent, entities, w, now)
    [] route = "analytics_agent" -> analytics_agent_node(intent, entities, w)
    [] route = "vendor_agent" -> vendor_agent_node(intent, entities, w)
    [] route = "general_agent" -> general_agent_node(user_input, w, gen)
    [] route = "execute_confirmation" -> execute_confirmation_node(w, save, now)
    [] route = "handle_cancellation" -> handle_cancellation_node(w)
    [] route = "handle_validation_errors" -> handle_validation_errors_node(errors, w)

\* The eight nodes the conditional edge out of "validate" can lead to.
Handlers ==
  {"product_agent", "sales_agent", "analytics_agent", "vendor_agent",
   "general_agent", "execute_confirmation", "handle_cancellation",
   "handle_validation_errors"}

\* Mutant of Successor: the validation-error handler leads back to the
\* entry node for another attempt.
Successor_Retry(node, route) ==
  CASE node = "understand" -> "validate"
    [] node = "validate" -> route
    [] node = "handle_validation_errors" -> "understand"
    [] OTHER -> "END"

\* The edges of the compiled graph: the node run after `node` in a turn
\* whose router answered `route`.
Successor(node, route) ==
  CASE node = "understand" -> "validate"
    [] node = "validate" -> route
    [] OTHER -> "END"

\* Number of nodes a walk of the graph is followed for.
MaxSteps == 6

\* The nodes run from `node` until END, at most `fuel` of them.
RECURSIVE NodesFrom(_, _, _)
NodesFrom(node, route, fuel) ==
  IF node = "END" \/ fuel = 0 THEN << >>
  ELSE <<node>> \o NodesFrom(Successor(node, route), route, fuel - 1)

\* The nodes a turn ran: all of them up to END, or those up to the node
\* that raised.
NodesRun(stage, route) ==
  CASE stage = "understand" -> <<"understand">>
    [] stage = "validate" -> <<"understand", "validate">>
    [] OTHER -> NodesFrom("understand", route, MaxSteps)

\* What graph.invoke leaves when a node raised at `stage`, or ran to END.
GraphResult(raised, stage, u, errors, route, agent_response, w) ==
  [raised |-> raised, stage |-> stage, nlu_called |-> u.nlu_called,
   intent |-> u.intent, entities |-> u.entities, errors |-> errors,
   route |-> route, agent_response |-> agent_response, w |-> w]

\* the handler node, then END
HandlerEdge(u, v, route, h) ==
  GraphResult(h.raised, "handler", u, v.errors, route, h.agent_response, h.w)

\* the conditional edge out of "validate"
RouteEdge(u, v, route, user_input, w, save, gen, now) ==
  HandlerEdge(u, v, route,
              RunHandler(route, user_input, u.intent, u.entities, v.errors, w,
                         save, gen, now))

\* the node "validate"
ValidateEdge(u, v, user_input, w, save, gen, now) ==
  IF v.raised THEN GraphResult(TRUE, "validate", u, << >>, "none", EmptyResponse, w)
  ELSE RouteEdge(u, v, route_to_agent(u.intent, v.errors), user_input, w,
                 save, gen, now)

\* the entry node "understand" and its edge to "validate"
UnderstandEdge(u, user_input, w, save, gen, now) ==
  IF u.raised THEN GraphResult(TRUE, "understand", u, << >>, "none", EmptyResponse, w)
  ELSE ValidateEdge(u, validate_input(u.entities), user_input, w, save, gen, now)

\* graph.invoke: understand -> validate -> route -> handler -> END.
GraphInvoke(user_input, w, nlu, save, gen, now) ==
  UnderstandEdge(understand_input(user_input, w.mem, nlu), user_input, w,
                 save, gen, now)

ERROR_RESPONSE == Resp("error_message", "", << >>, << >>)

\* Mutant of AfterInvoke: no except clause, the exception of a node leaves
\* process_message.
AfterInvoke_Propagates(g) ==
  IF g.raised
    THEN [g |-> g, returned |-> Resp("uncaught_exception", "", << >>, << >>),
          w |-> g.w]
    ELSE [g |-> g, returned |-> g.agent_response,
          w |-> [g.w EXCEPT !.mem = add_message(@, "assistant", g.agent_response)]]

\* The try / except of process_message around graph.invoke.
AfterInvoke(g) ==
  IF g.raised
    THEN [g |-> g, returned |-> ERROR_RESPONSE, w |-> g.w]
    ELSE [g |-> g, returned |-> g.agent_response,
          w |-> [g.w EXCEPT !.mem = add_message(@, "assistant", g.agent_response)]]

\* process_message: the world after the call and the text returned.
process_message(user_input, w, nlu, save, gen, now) ==
  AfterInvoke(GraphInvoke(user_input,
                          [w EXCEPT !.mem = add_message(@, "user", UserText(user_input))],
                          nlu, save, gen, now))

(***************************************************************************)
(* The inputs of a turn: the text typed and what the classifier call comes *)
(* to if it is made.                                                       *)
(***************************************************************************)
Ent(product_id, product_name, category) ==
  EntMap([EmptyEntities EXCEPT !.product_id = product_id,
                               !.product_name = product_name,
                               !.category = category])

SaleEnt(sale_id, customer_id, total, status) ==
  EntMap([EmptyEntities EXCEPT !.sale_id = sale_id, !.customer_id = customer_id,
                               !.total = total, !.status = status])

NoEnt == EntMap(EmptyEntities)

\* The closed intent vocabulary of the classifier prompt plus the two
\* intents understand_input sets itself.
Intents ==
  {"search_product", "get_product_details", "create_product", "update_product",
   "search_sales", "create_sale", "update_sale", "get_analytics",
   "get_recommendations", "vendor_query", "confirm_action", "cancel_action",
   "general_chat"}

\* Objects the classifier can answer with.
ClassifierOutputs ==
  {NluDict(i, NoEnt) : i \in Intents \cup {"smalltalk", "None"}}
  \cup
  { NluDict("search_product", Ent(Absent, S("zzz"), Absent)),
    NluDict("get_product_details", Ent(S("p1"), Absent, Absent)),
    NluDict("create_product", Ent(S("p2"), S("Widget"), S("Home"))),
    NluDict("create_product", Ent(S("p1"), S("Widget"), S("Home"))),
    NluDict("create_product", Ent(Absent, S("Widget"), S("Home"))),
    NluDict("create_product", Ent(S("p9"), S("Widget"), S("Bogus"))),
    NluDict("update_product", Ent(S("p1"), S("Widget"), Absent)),
    NluDict("create_sale", SaleEnt(S("s2"), S("c1"), N(5), S("PAID"))),
    NluDict("create_sale", SaleEnt(Absent, S("c1"), N(5), Absent)),
    NluDict("create_sale", SaleEnt(S("s2"), S("c1"), N(0), Absent)),
    NluDict("create_sale", SaleEnt(S("s2"), S("c1"), S("x"), Absent)),
    NluDict("update_sale", SaleEnt(S("s1"), Absent, Absent, S("PAID"))),
    NluDict("search_sales",
            EntMap([EmptyEntities EXCEPT !.category = S("Bogus"),
                                         !.status = S("Bogus")])),
    NluDict("search_sales",
            EntMap([EmptyEntities EXCEPT !.category = S(""), !.status = None])),
    NluDict("confirm_action", SaleEnt(Absent, Absent, Absent, S("Bogus"))),
    NluDict("cancel_action", Ent(Absent, Absent, S("Bogus"))),
    NluDict("general_chat", EntNull),
    NluNonDict, NluBareDict, NluError }

TurnInputs ==
  {[text |-> t, nlu |-> NluError] : t \in Texts}
  \cup {[text |-> "hi", nlu |-> o] : o \in ClassifierOutputs}
  \cup {[text |-> "yes", nlu |-> NluDict("confirm_action", NoEnt)]}

\* The inputs that drive the confirmation protocol: confirm, cancel, staging
\* a product or a sale, a failed staging, a read, general chat, a validation
\* error.
SessionInputs ==
  {[text |-> t, nlu |-> NluError] : t \in {"yes", "no", "hi"}}
  \cup
  {[text |-> "hi", nlu |-> o] : o \in
     { NluDict("create_product", Ent(S("p2"), S("Widget"), S("Home"))),
       NluDict("create_product", Ent(Absent, S("Widget"), S("Home"))),
       NluDict("create_sale", SaleEnt(S("s2"), S("c1"), N(5), S("PAID"))),
       NluDict("search_product", NoEnt),
       NluDict("confirm_action", SaleEnt(Absent, Absent, Absent, S("Bogus"))) }}

\* Number of process_message calls explored, over SessionInputs and over
\* TurnInputs.
MaxTurns == 4

MaxWideTurns == 2

(***************************************************************************)
(* State                                                                   *)
(***************************************************************************)
VARIABLES
  messages,         \* SessionMemory.messages
  context,          \* SessionMemory.context
  pending_actions,  \* SessionMemory.pending_actions
  products,         \* products.json: db["products"]
  sales,            \* sales.json: db["sales"]
  vendors,          \* vendors.json: db["vendors"]
  staged,           \* history: number of add_pending_action calls so far
  dispatched,       \* history: tags of the actions handed to a store call
  turns,            \* history: number of process_message calls so far
  last,             \* history: the last call, what it computed, the state before it
  chatbots,         \* two further EnhancedChatbot instances over the same files
  last_step         \* history: the last step one of these two took

vars == <<messages, context, pending_actions, products, sales, vendors,
          staged, dispatched, turns, last, chatbots, last_step>>

World ==
  [mem |-> [messages |-> messages, context |-> context,
            pending_actions |-> pending_actions],
   products |-> products, sales |-> sales, vendors |-> vendors,
   staged |-> staged, dispatched |-> dispatched]

\* The record of a call: op is "none" (no call yet), "turn" or "reset".
NoCall ==
  [op |-> "none", text |-> "", nlu |-> NluNotCalled, save |-> "ok",
   raised |-> FALSE, stage |-> "none", nlu_called |-> FALSE, intent |-> "None",
   entities |-> NoEnt, errors |-> << >>, route |-> "none",
   returned |-> EmptyResponse, pre |-> [NewMemory EXCEPT !.messages = << >>],
   pre_products |-> << >>, pre_sales |-> << >>, pre_vendors |-> << >>,
   pre_dispatched |-> << >>, pre_staged |-> 0, nodes |-> << >>]

\* The two instances of the two-session specification.
Sessions == {1, 2}

Other(s) == 3 - s

\* An instance between two calls: its session memory; whether a commit of
\* its is between load_json and save_json (pc), with the input of that turn
\* and the file contents it loaded; history: the tags of the actions it
\* staged (own) and handed to a store (committed), and what the other
\* instance saved since it loaded (between).
NewChatbot ==
  [mem |-> NewMemory, pc |-> "idle", inp |-> [text |-> "hi", nlu |-> NluError],
   loaded |-> [products |-> << >>, sales |-> << >>],
   own |-> {}, committed |-> {}, between |-> << >>]

\* The record of a step of the two-session specification.
NoStep ==
  [op |-> "none", s |-> 1, success |-> FALSE, store |-> "none",
   data |-> << >>, loaded |-> << >>, between |-> << >>,
   pre_other |-> NewMemory]

Init ==
  /\ chatbots = [s \in Sessions |-> NewChatbot]
  /\ last_step = NoStep
  /\ messages = NewMemory.messages
  /\ context = NewMemory.context
  /\ pending_actions = NewMemory.pending_actions
  /\ products = InitialProducts
  /\ sales = InitialSales
  /\ vendors = InitialVendors
  /\ staged = 0
  /\ dispatched = << >>
  /\ turns = 0
  /\ last = NoCall

\* The outcomes of the calls a turn makes; a call not made has no outcome.
RouteAfter(u, v) ==
  IF u.raised \/ v.raised THEN "none" ELSE route_to_agent(u.intent, v.errors)

RouteAfterUnderstand(u) == RouteAfter(u, validate_input(u.entities))

RouteOf(text, nlu) == RouteAfterUnderstand(understand_input(text, World.mem, nlu))

SaveChoices(route) ==
  IF route = "execute_confirmation" /\ pending_actions # << >>
    THEN SaveOutcomes ELSE {"ok"}

GenChoices(route) == IF route = "general_agent" THEN GenOutcomes ELSE {"text"}

NowChoices(route) ==
  IF route \in {"execute_confirmation", "sales_agent"} THEN Timestamps ELSE {"t1"}

\* EnhancedChatbot.process_message(user_input)
ProcessMessage(text, nlu, save, gen, now) ==
  \E r \in {process_message(text, World, nlu, save, gen, now)} :
     /\ messages' = r.w.mem.messages
     /\ context' = r.w.mem.context
     /\ pending_actions' = r.w.mem.pending_actions
     /\ products' = r.w.products
     /\ sales' = r.w.sales
     /\ vendors' = r.w.vendors
     /\ staged' = r.w.staged
     /\ dispatched' = r.w.dispatched
     /\ turns' = turns + 1
     /\ last' = [op |-> "turn", text |-> text,
                 nlu |-> IF r.g.nlu_called THEN nlu ELSE NluNotCalled,
                 save |-> save,
                 raised |-> r.g.raised, stage |-> r.g.stage,
                 nlu_called |-> r.g.nlu_called, intent |-> r.g.intent,
                 entities |-> r.g.entities, errors |-> r.g.errors,
                 route |-> r.g.route, returned |-> r.returned,
                 pre |-> World.mem, pre_products |-> products,
                 pre_sales |-> sales, pre_vendors |-> vendors,
                 pre_dispatched |-> dispatched, pre_staged |-> staged,
                 nodes |-> NodesRun(r.g.stage, r.g.route)]
     /\ UNCHANGED <<chatbots, last_step>>

\* EnhancedChatbot.reset()
Reset ==
  /\ messages' = reset_memory(World.mem).messages
  /\ context' = reset_memory(World.mem).context
  /\ pending_actions' = reset_memory(World.mem).pending_actions
  /\ last' = [NoCall EXCEPT !.op = "reset",
                            !.pre.pending_actions = pending_actions]
  /\ UNCHANGED <<products, sales, vendors, staged, dispatched, turns,
                 chatbots, last_step>>

\* One call of process_message with a text and classifier outcome of inputs.
Turn(inputs) ==
  \E inp \in inputs :
    \E route \in {RouteOf(inp.text, inp.nlu)} :
      \E save \in SaveChoices(route), gen \in GenChoices(route),
         now \in NowChoices(route) :
        ProcessMessage(inp.text, inp.nlu, save, gen, now)

\* Sessions of up to MaxTurns turns over the inputs that drive the
\* confirmation protocol.
Next ==
  \/ (turns < MaxTurns /\ Turn(SessionInputs))
  \/ Reset

Spec == Init /\ [][Next]_vars

\* Sessions of up to MaxWideTurns turns over every input of the model.
NextWide ==
  \/ (turns < MaxWideTurns /\ Turn(TurnInputs))
  \/ Reset

SpecWide == Init /\ [][NextWide]_vars

\* Every text of the model, the classifier call failing whenever it is made.
FallbackInputs == {[text |-> t, nlu |-> NluError] : t \in Texts}

\* Number of process_message calls explored with a failing classifier.
MaxFallbackTurns == 3

\* Sessions in which the classifier is never available.
NextFallback ==
  \/ (turns < MaxFallbackTurns /\ Turn(FallbackInputs))
  \/ Reset

SpecFallback == Init /\ [][NextFallback]_vars

(***************************************************************************)
(* Two sessions over the same store files.  Each EnhancedChatbot builds    *)
(* its own SessionMemory and a graph bound to it; the stores are the       *)
(* module-level JSON files.  A commit is two steps, load_json of the whole *)
(* file and save_json of the whole file, between which the other session   *)
(* may run; every other turn reads or writes no file in between and is one *)
(* step.                                                                   *)
(***************************************************************************)
\* Mutant of GraphMemory: one SessionMemory serves both instances.
GraphMemory_Shared(s) == 1

\* The session memory the nodes of instance s work on:
\* build_conversation_graph(self.session_memory).
GraphMemory(s) == s

\* The world a turn of instance s runs in, the store files reading as files.
WorldOver(s, files) ==
  [mem |-> chatbots[GraphMemory(s)].mem, products |-> files.products,
   sales |-> files.sales, vendors |-> vendors, staged |-> staged,
   dispatched |-> dispatched]

Files == [products |-> products, sales |-> sales]

\* The turns of the two-session specification: staging a product (two ids)
\* or a sale, confirming, cancelling.
TwoInputs ==
  {[text |-> t, nlu |-> NluError] : t \in {"yes", "no"}}
  \cup
  {[text |-> "hi", nlu |-> o] : o \in
     { NluDict("create_product", Ent(S("p2"), S("Widget"), S("Home"))),
       NluDict("create_product", Ent(S("p3"), S("Widget"), S("Home"))),
       NluDict("create_sale", SaleEnt(S("s2"), S("c1"), N(5), S("PAID"))) }}

\* Number of turns the two sessions begin between them.
MaxTwoTurns == 4

\* The turn of instance s on inp will call a store: it is routed to the
\* executor and an action is pending.
IsCommit(s, inp) ==
  /\ get_pending_action(chatbots[GraphMemory(s)].mem) # << >>
  /\ RouteAfterUnderstand(
        understand_input(inp.text, chatbots[GraphMemory(s)].mem, inp.nlu))
       = "execute_confirmation"

\* The tags a turn staged and the tags it handed to a store.
StagedBy(w, r) == IF r.w.staged > w.staged THEN {r.w.staged} ELSE {}

DispatchedBy(w, r) == Range(r.w.dispatched) \ Range(w.dispatched)

\* The instances after a turn of s that came to r from world w.
AfterTurn(s, w, r) ==
  [t \in Sessions |->
     [[chatbots[t] EXCEPT !.mem = IF t = GraphMemory(s) THEN r.w.mem ELSE @]
        EXCEPT !.pc = IF t = s THEN "idle" ELSE @,
               !.own = IF t = s THEN @ \cup StagedBy(w, r) ELSE @,
               !.committed = IF t = s THEN @ \cup DispatchedBy(w, r) ELSE @]]

\* A turn of instance s that calls no store: process_message in one step.
TwoTurn(s) ==
  /\ turns < MaxTwoTurns
  /\ chatbots[s].pc = "idle"
  /\ \E inp \in TwoInputs :
       /\ ~IsCommit(s, inp)
       /\ \E r \in {process_message(inp.text, WorldOver(s, Files), inp.nlu,
                                     "ok", "text", "t1")} :
            /\ chatbots' = AfterTurn(s, WorldOver(s, Files), r)
            /\ staged' = r.w.staged
            /\ dispatched' = r.w.dispatched
            /\ products' = r.w.products
            /\ sales' = r.w.sales
            /\ last_step' = [NoStep EXCEPT !.op = "turn", !.s = s,
                                           !.pre_other = chatbots[Other(s)].mem]
  /\ turns' = turns + 1
  /\ UNCHANGED <<messages, context, pending_actions, vendors, last>>

\* A confirming turn of instance s up to and including the load_json of
\* create_product / create_sale.
CommitLoad(s) ==
  /\ turns < MaxTwoTurns
  /\ chatbots[s].pc = "idle"
  /\ \E inp \in TwoInputs :
       /\ IsCommit(s, inp)
       /\ chatbots' = [chatbots EXCEPT ![s].pc = "loaded", ![s].inp = inp,
                                       ![s].loaded = Files,
                                       ![s].between = << >>]
  /\ last_step' = [NoStep EXCEPT !.op = "load", !.s = s,
                                 !.pre_other = chatbots[Other(s)].mem]
  /\ turns' = turns + 1
  /\ UNCHANGED <<messages, context, pending_actions, products, sales, vendors,
                 staged, dispatched, last>>

\* The store file a pending action is written to.
StoreOf(action) == IF action.action = "create_sale" THEN "sales" ELSE "products"

\* A store file after a commit that loaded `loaded` and left `after` in its
\* db: save_json overwrote the whole file if the commit appended to db,
\* and was not called otherwise.
FileAfter(current, loaded, after) == IF after # loaded THEN after ELSE current

\* The instances after the commit of s has saved: the turn of s is over, and
\* an instance still between its load and its save of the same store has
\* the record just saved added to its history.
AfterSave(s, w, r, store) ==
  [t \in Sessions |->
     IF t # s /\ chatbots[t].pc = "loaded" /\ r.w[store] # w[store]
          /\ StoreOf(get_pending_action(chatbots[GraphMemory(t)].mem)[1]) = store
       THEN [AfterTurn(s, w, r)[t]
               EXCEPT !.between = Append(@, r.w[store][Len(r.w[store])])]
       ELSE AfterTurn(s, w, r)[t]]

\* The rest of a confirming turn of instance s, run on the file contents
\* `files` as its db: duplicate check, append, save_json, reply.
CommitSaveOver(s, files) ==
  /\ chatbots[s].pc = "loaded"
  /\ \E now \in Timestamps :
       \E r \in {process_message(chatbots[s].inp.text, WorldOver(s, files),
                                  chatbots[s].inp.nlu, "ok", "text", now)} :
         \E store \in {StoreOf(get_pending_action(chatbots[GraphMemory(s)].mem)[1])} :
            /\ chatbots' = AfterSave(s, WorldOver(s, files), r, store)
            /\ staged' = r.w.staged
            /\ dispatched' = r.w.dispatched
            /\ products' = FileAfter(products, files.products, r.w.products)
            /\ sales' = FileAfter(sales, files.sales, r.w.sales)
            /\ last_step' =
                 [op |-> "save", s |-> s,
                  success |-> r.returned.kind \in {"product_created", "sale_created"},
                  store |-> store,
                  data |-> <<get_pending_action(chatbots[GraphMemory(s)].mem)[1].data>>,
                  loaded |-> chatbots[s].loaded[store],
                  between |-> chatbots[s].between,
                  pre_other |-> chatbots[Other(s)].mem]
  /\ UNCHANGED <<messages, context, pending_actions, vendors, turns, last>>

\* Mutant of CommitSave: the file is locked from load to save, so that the
\* commit works on the file as it is when it saves.
CommitSave_Locked(s) == CommitSaveOver(s, Files)

\* The commit of instance s saves: its db is the file as it loaded it.
CommitSave(s) == CommitSaveOver(s, chatbots[s].loaded)

\* EnhancedChatbot.reset() of instance s, between two turns.
TwoReset(s) ==
  /\ chatbots[s].pc = "idle"
  /\ chatbots' = [chatbots EXCEPT ![GraphMemory(s)].mem = reset_memory(@)]
  /\ last_step' = [NoStep EXCEPT !.op = "reset", !.s = s,
                                 !.pre_other = chatbots[Other(s)].mem]
  /\ UNCHANGED <<messages, context, pending_actions, products, sales, vendors,
                 staged, dispatched, turns, last>>

NextTwo ==
  \E s \in Sessions :
     \/ TwoTurn(s)
     \/ CommitLoad(s)
     \/ CommitSave(s)
     \/ TwoReset(s)

SpecTwo == Init /\ [][NextTwo]_vars

(***************************************************************************)
(* Properties.  `last` holds the most recent call and the state before it, *)
(* so a statement about what one turn does is a state predicate.           *)
(***************************************************************************)
IsTurn == last.op = "turn"

\* The turn reached its handler node (no node before it raised).
RanHandler == IsTurn /\ last.stage = "handler"

StoresUnchanged ==
  /\ products = last.pre_products
  /\ sales = last.pre_sales
  /\ vendors = last.pre_vendors

\* The context apart from the turn counter add_message maintains.
SameContextButCount(c1, c2) ==
  [c1 EXCEPT !.conversation_count = 0] = [c2 EXCEPT !.conversation_count = 0]

\* The pending action the turn started with (the top of the stack).
PrePending == last.pre.pending_actions

PreTop == PrePending[Len(PrePending)]

\* C1: the catalog and the sales store change only in a turn routed to the
\* confirmation executor that started with a pending action; every other
\* turn leaves the stores as they were.
C1_StoresChangeOnlyOnConfirm ==
  (IsTurn /\ ~StoresUnchanged)
    => (last.route = "execute_confirmation" /\ PrePending # << >>)

\* C1 witness: a confirmation turn with a pending action added a product.
C1_Witness ==
  /\ IsTurn
  /\ last.route = "execute_confirmation"
  /\ PrePending # << >>
  /\ Len(products) = Len(last.pre_products) + 1

\* C2: no staged action is handed to a store call twice.
C2_NeverCommittedTwice ==
  \A i, j \in 1..Len(dispatched) : i # j => dispatched[i] # dispatched[j]

\* C2 witness: after an action was dispatched, a later turn with a
\* confirmation token dispatched nothing.
C2_Witness ==
  /\ IsTurn
  /\ HasConfirmWord[last.text]
  /\ last.pre_dispatched # << >>
  /\ dispatched = last.pre_dispatched

\* C3: a turn in which the executor ran with a pending action leaves the
\* pending stack empty whatever the store call returned, and a turn that
\* starts with an empty stack hands nothing to a store.
C3_ExecutorClearsStack ==
  /\ (RanHandler /\ last.route = "execute_confirmation" /\ PrePending # << >>)
       => pending_actions = << >>
  /\ (IsTurn /\ PrePending = << >>) => dispatched = last.pre_dispatched

\* C3 witness: the store call of a confirmation failed and the stack is empty.
C3_Witness ==
  /\ RanHandler
  /\ last.route = "execute_confirmation"
  /\ PrePending # << >>
  /\ last.returned.kind \in {"product_create_failed", "sale_create_failed"}
  /\ pending_actions = << >>

\* The turn confirmed a staged create_product.
ConfirmedCreateProduct ==
  /\ RanHandler
  /\ last.route = "execute_confirmation"
  /\ PrePending # << >>
  /\ PreTop.action = "create_product"

\* C4 as stated: confirming a staged create_product adds exactly that record
\* to the catalog and leaves the pending stack empty.
C4_Original ==
  ConfirmedCreateProduct
    => /\ products = Append(last.pre_products, PreTop.data)
       /\ pending_actions = << >>

\* C4 amended: confirming a staged create_product leaves the pending stack
\* empty; when the store call succeeds the catalog is the old catalog plus
\* exactly that record, whose id was not in it; when it fails (the id is
\* already in the catalog, or the file write failed) no record is added.
C4_ConfirmCreateProduct ==
  ConfirmedCreateProduct
    => /\ pending_actions = << >>
       /\ IF last.returned.kind = "product_created"
            THEN /\ products = Append(last.pre_products, PreTop.data)
                 /\ \A i \in 1..Len(last.pre_products) :
                       last.pre_products[i].id # PreTop.data.id
            ELSE /\ last.returned.kind = "product_create_failed"
                 /\ products \in {last.pre_products, << >>}

\* C4 witness: a confirmed create_product was rejected as a duplicate id.
C4_Witness ==
  /\ ConfirmedCreateProduct
  /\ last.returned.message = "Product ID already exists"
  /\ products = last.pre_products

\* C5 as stated: a turn whose text has a confirmation token while nothing is
\* pending answers "nothing pending" and changes no store.
C5_Original ==
  (IsTurn /\ HasConfirmWord[last.text] /\ PrePending = << >>)
    => (last.returned = NOTHING_PENDING /\ StoresUnchanged)

\* A turn the cancellation override of understand_input classified.
CancelOverride ==
  /\ IsTurn
  /\ HasCancelWord[last.text]
  /\ ~(HasConfirmWord[last.text] /\ PrePending # << >>)

\* C6: a cancellation turn leaves the pending stack empty and every store as
\* it was, returns the fixed acknowledgment and does not fail; a text with a
\* negation token that is not taken as a confirmation is such a turn.
C6_Cancellation ==
  /\ CancelOverride => (RanHandler /\ last.route = "handle_cancellation")
  /\ (RanHandler /\ last.route = "handle_cancellation")
       => /\ pending_actions = << >>
          /\ StoresUnchanged
          /\ dispatched = last.pre_dispatched
          /\ last.returned = CANCELLED_ACK
          /\ ~last.raised

\* C6 witness: a cancellation turn that started with a pending action.
C6_Witness ==
  /\ CancelOverride
  /\ PrePending # << >>
  /\ pending_actions = << >>

\* The turn ran a create handler whose candidate record failed the local
\* validation (validate_product_data / validate_sale_data).
FailedLocalValidation ==
  /\ RanHandler
  /\ ~last.raised
  /\ \/ /\ last.route = "product_agent"
        /\ last.intent = "create_product"
        /\ validate_product_data(ProductFromEntities(last.entities.map)) # << >>
     \/ /\ last.route = "sales_agent"
        /\ last.intent = "create_sale"
        /\ validate_sale_data(SaleFromEntities(last.entities.map, "t1")) # << >>

\* C7: a create turn whose candidate fails the handler's local validation
\* pushes nothing: the pending stack is what it was before the turn.
C7_FailedValidationStagesNothing ==
  FailedLocalValidation
    => /\ pending_actions = PrePending
       /\ last.returned.kind \in {"product_missing_info", "sale_missing_info"}

\* C7 witness: a failed create turn that started with a pending action.
C7_Witness ==
  /\ FailedLocalValidation
  /\ PrePending # << >>
  /\ last.returned.kind \in {"product_missing_info", "sale_missing_info"}

\* The turn ran the handler of a write-path intent whose candidate passed
\* the handler's local validation (the update intents have none to fail).
PassedLocalValidation ==
  /\ RanHandler
  /\ ~last.raised
  /\ \/ /\ last.intent = "create_product"
        /\ validate_product_data(ProductFromEntities(last.entities.map)) = << >>
     \/ /\ last.intent = "create_sale"
        /\ validate_sale_data(SaleFromEntities(last.entities.map, "t1")) = << >>
     \/ last.intent \in {"update_product", "update_sale"}

\* C8 as stated: each of the four write-path intents, its candidate passing
\* local validation, pushes exactly one pending action of its kind and
\* returns a summary that ends in a yes/no prompt.
C8_Original ==
  PassedLocalValidation
    => /\ Len(pending_actions) = Len(PrePending) + 1
       /\ SubSeq(pending_actions, 1, Len(PrePending)) = PrePending
       /\ pending_actions[Len(pending_actions)].action = last.intent
       /\ EndsWithYesNoPrompt(last.returned)

\* The handler the spec's routing table names for an intent.
RoutingTable(intent) ==
  CASE intent \in {"search_product", "get_product_details", "create_product",
                   "update_product"} -> "product_agent"
    [] intent \in {"search_sales", "create_sale", "update_sale"} -> "sales_agent"
    [] intent \in {"get_analytics", "get_recommendations"} -> "analytics_agent"
    [] intent = "vendor_query" -> "vendor_agent"
    [] intent = "confirm_action" -> "execute_confirmation"
    [] intent = "cancel_action" -> "handle_cancellation"
    [] OTHER -> "general_agent"

\* C9: without validation errors every intent is routed to the one handler
\* of the routing table, general_chat and any intent outside the
\* enumeration to the general handler.
C9_RouterTotal ==
  (RanHandler /\ last.errors = << >>) => last.route = RoutingTable(last.intent)

\* C9 witness: an intent outside the enumeration went to the general handler.
C9_Witness ==
  /\ RanHandler
  /\ last.errors = << >>
  /\ last.intent \notin Intents
  /\ last.route = "general_agent"

\* C10: a turn whose validation produced an error runs the validation-error
\* handler whatever the intent, and no handler, executor or cancellation
\* acts: pending stack, stores and context are as before the turn.
C10_ValidationErrorsWin ==
  (RanHandler /\ last.errors # << >>)
    => /\ last.route = "handle_validation_errors"
       /\ last.returned = Resp("validation_errors", "", last.errors, << >>)
       /\ pending_actions = PrePending
       /\ StoresUnchanged
       /\ dispatched = last.pre_dispatched
       /\ SameContextButCount(context, last.pre.context)

\* C10 witness: a confirm_action turn with a validation error left the
\* pending action where it was.
C10_Witness ==
  /\ RanHandler
  /\ last.errors # << >>
  /\ last.intent = "confirm_action"
  /\ PrePending # << >>
  /\ pending_actions = PrePending

\* The kinds of text process_message can hand back to its caller: the
\* handlers' templates, the empty agent_response and the error message.
ResponseKinds ==
  {"analytics_summary", "ask_product_id", "cancelled", "empty", "error_message",
   "general_help", "generated_text", "no_products", "no_recommendations",
   "no_sales", "no_vendors", "nothing_pending", "product_confirm_prompt",
   "product_details", "product_missing_info", "product_not_found",
   "product_results", "recommendations", "sale_confirm_prompt",
   "sale_missing_info", "sales_results", "update_failed", "validation_errors",
   "vendor_details", "vendor_list", "vendor_not_found", "product_created",
   "product_create_failed", "sale_created", "sale_create_failed"}

\* The log before the turn ended with a user entry: the turn before it
\* raised and left no assistant entry.
PreviousTurnRaised ==
  /\ last.pre.messages # << >>
  /\ last.pre.messages[Len(last.pre.messages)].role = "user"

\* C11: every turn returns a response text; a turn in which understand,
\* validate or the handler raised returns the error message, and from the
\* state it leaves every further call, whatever its input and the outcome of
\* its I/O, again returns a response text.
C11_NeverPropagates ==
  /\ IsTurn => last.returned.kind \in ResponseKinds
  /\ (IsTurn /\ last.raised)
       => /\ last.stage \in {"understand", "validate", "handler"}
          /\ last.returned = ERROR_RESPONSE
          /\ \A inp \in TurnInputs, save \in SaveOutcomes, gen \in GenOutcomes :
                process_message(inp.text, World, inp.nlu, save, gen, "t1")
                  .returned.kind \in ResponseKinds

\* C11 witness: the turn after a turn whose handler raised ran its handler
\* and returned that handler's response.
C11_Witness ==
  /\ RanHandler
  /\ ~last.raised
  /\ PreviousTurnRaised
  /\ last.returned.kind \in ResponseKinds \ {"error_message"}

\* C12 as stated: every turn grows the log by exactly two entries, the user
\* text and then the returned response, also when a node raised.
C12_Original ==
  IsTurn
    => /\ Len(messages) = Len(last.pre.messages) + 2
       /\ SubSeq(messages, 1, Len(last.pre.messages)) = last.pre.messages
       /\ messages[Len(messages) - 1]
            = [role |-> "user", content |-> UserText(last.text)]
       /\ messages[Len(messages)]
            = [role |-> "assistant", content |-> last.returned]

\* A turn the confirmation override of understand_input applies to.
ConfirmOverride ==
  /\ IsTurn
  /\ HasConfirmWord[last.text]
  /\ PrePending # << >>

\* The dict a turn's entities hold: the classifier's map, or the pending
\* action {"action": ..., "data": ...} the override assigned.
EntitiesValue(e) ==
  IF e.kind = "pending"
    THEN [action |-> e.pending[1].action, data |-> e.pending[1].data]
    ELSE e.map

\* C13 as stated: under the confirmation override the intent is
\* confirm_action, the classifier is not called, and the entities are the
\* pending action's payload, the record to persist.
C13_Original ==
  ConfirmOverride
    => /\ last.intent = "confirm_action"
       /\ ~last.nlu_called
       /\ EntitiesValue(last.entities) = PreTop.data

\* C13 amended: under the confirmation override the intent is
\* confirm_action, the classifier is not called, and the entities are the
\* pending action itself, its kind together with its payload.
C13_ConfirmOverride ==
  ConfirmOverride
    => /\ last.intent = "confirm_action"
       /\ ~last.nlu_called
       /\ last.nlu = NluNotCalled
       /\ last.stage # "understand"
       /\ EntitiesValue(last.entities)
            = [action |-> PreTop.action, data |-> PreTop.data]

\* C13 witness: a confirmation turn with a staged create_product, although
\* the text also holds a negation token.
C13_Witness ==
  /\ ConfirmOverride
  /\ HasCancelWord[last.text]
  /\ PreTop.action = "create_product"
  /\ last.intent = "confirm_action"
  /\ ~last.nlu_called

\* C14: a text with a negation token to which the confirmation override
\* does not apply is classified cancel_action with empty entities and
\* without a classifier call, with or without a pending action.
C14_CancelOverride ==
  CancelOverride
    => /\ last.intent = "cancel_action"
       /\ ~last.nlu_called
       /\ last.nlu = NluNotCalled
       /\ last.entities = NoEnt
       /\ last.stage # "understand"

\* C14 witness: a text with both a confirmation and a negation token while
\* nothing is pending is a cancellation.
C14_Witness ==
  /\ CancelOverride
  /\ HasConfirmWord[last.text]
  /\ PrePending = << >>
  /\ last.intent = "cancel_action"
  /\ last.route = "handle_cancellation"

\* The classifier was called and failed: the call or the parse raised, or
\* the output parsed to JSON that is not the object asked for.
ClassifierFailed ==
  /\ IsTurn
  /\ last.nlu.kind \in {"error", "nondict"}

\* C15 as stated: on any failure of the classifier the turn's intent and
\* entities are the keyword fallback's for the text, and the turn goes on
\* through validate and route to its handler.
C15_Original ==
  ClassifierFailed
    => /\ last.intent = FallbackResult[last.text].intent
       /\ last.entities = FallbackResult[last.text].entities
       /\ last.stage = "handler"

\* A turn whose classifier call raised, so that the keyword fallback answered.
FallbackTurn ==
  /\ IsTurn
  /\ last.nlu.kind = "error"

\* The stores, the session and the history counters before the last turn.
PreWorld ==
  [mem |-> last.pre, products |-> last.pre_products, sales |-> last.pre_sales,
   vendors |-> last.pre_vendors, staged |-> last.pre_staged,
   dispatched |-> last.pre_dispatched]

\* C16: in every turn the fallback answers, in whatever session state and
\* after whatever history, the intent is the one the fallback computes from
\* the text alone and the entities are empty; and the fallback leaves no
\* trace of its own: the turn ends in the state, and with the response, of
\* a turn in which the classifier itself gave that answer.
C16_FallbackPure ==
  FallbackTurn
    => /\ last.intent = fallback_intent_detection(last.text).intent
       /\ last.entities = NoEnt
       /\ \E gen \in GenOutcomes, now \in Timestamps :
            \E r \in {process_message(last.text, PreWorld,
                                      NluDict(last.intent, NoEnt), "ok", gen, now)} :
               /\ r.w = World
               /\ r.returned = last.returned

\* C16 witness: the fallback classified a search while an action was
\* pending, and the pending stack and the catalog are as they were.
C16_Witness ==
  /\ FallbackTurn
  /\ PrePending # << >>
  /\ last.intent = "search_product"
  /\ pending_actions = PrePending
  /\ products = last.pre_products

\* The turn ran the search_product branch of the product agent to its end.
SearchedProducts ==
  /\ RanHandler
  /\ ~last.raised
  /\ last.route = "product_agent"
  /\ last.intent = "search_product"

\* C17 as stated: a search_product turn stores its matches in
\* last_search_results and, when exactly one product matches, sets
\* last_product_id to that product's id.
C17_Original ==
  SearchedProducts
    => /\ context.last_search_results = last.returned.data
       /\ Len(last.returned.data) = 1
            => context.last_product_id = last.returned.data[1].id

\* The fixed key schema of the session context.
ContextSchema ==
  {"last_search_results", "last_filters", "current_topic", "last_product_id",
   "last_sale", "user_preferences", "conversation_count"}

\* C18: in every state the context holds every key of the schema, and a
\* turn leaves every key the context had before it.
C18_ContextSchema ==
  /\ ContextSchema \subseteq DOMAIN context
  /\ IsTurn => DOMAIN last.pre.context \subseteq DOMAIN context

\* C18 witness: a reset after at least one turn had counted its messages in
\* the context; every key is there, back at its default.
C18_Witness ==
  /\ last.op = "reset"
  /\ turns > 0
  /\ ContextSchema \subseteq DOMAIN context
  /\ context.last_search_results = << >>
  /\ context.conversation_count = 0

\* C19: reset leaves the construction-time session (empty log, default
\* context with conversation_count 0, empty pending stack) whatever was
\* there, and the first turn after it hands nothing to a store and leaves
\* the stores as they were.
C19_Reset ==
  /\ last.op = "reset"
       => /\ messages = << >>
          /\ context = DefaultContext
          /\ context.conversation_count = 0
          /\ pending_actions = << >>
          /\ World.mem = NewMemory
  /\ (IsTurn /\ last.pre.messages = << >>)
       => /\ PrePending = << >>
          /\ StoresUnchanged
          /\ dispatched = last.pre_dispatched

\* C19 witness: the first turn staged an action, the session was reset, and
\* the second turn, a confirmation, committed nothing.
C19_Witness ==
  /\ IsTurn
  /\ turns = 2
  /\ last.pre.messages = << >>
  /\ HasConfirmWord[last.text]
  /\ staged = 1
  /\ dispatched = << >>
  /\ StoresUnchanged

\* A create_product turn whose category entity is outside the enumeration.
BogusCategoryCreate ==
  /\ IsTurn
  /\ last.intent = "create_product"
  /\ last.entities.kind = "map"
  /\ Truthy(last.entities.map.category)
  /\ ~InList(last.entities.map.category, valid_categories)

\* C20 as stated: such a turn reaches the product agent, fails its local
\* validation, lists the category error and stages nothing.
C20_Original ==
  BogusCategoryCreate
    => /\ last.route = "product_agent"
       /\ last.returned.kind = "product_missing_info"
       /\ "Category must be one of the valid categories" \in Range(last.returned.errors)
       /\ pending_actions = PrePending

\* C20 amended: such a turn is stopped by validate_input before routing:
\* it runs the validation-error handler, not the product agent, returns a
\* response listing the category error, and stages nothing.
C20_BogusCategoryStopped ==
  BogusCategoryCreate
    => /\ RanHandler
       /\ last.route = "handle_validation_errors"
       /\ last.returned.kind = "validation_errors"
       /\ "Invalid category" \in Range(last.returned.errors)
       /\ pending_actions = PrePending
       /\ staged = last.pre_staged
       /\ StoresUnchanged

\* C20 witness: create_product with id p9, name Widget, category Bogus.
C20_Witness ==
  /\ BogusCategoryCreate
  /\ last.entities.map.product_id = S("p9")
  /\ last.entities.map.product_name = S("Widget")
  /\ last.entities.map.category = S("Bogus")
  /\ last.returned.kind = "validation_errors"
  /\ pending_actions = PrePending

\* The turn confirmed a staged create_sale.
ConfirmedCreateSale ==
  /\ RanHandler
  /\ last.route = "execute_confirmation"
  /\ PrePending # << >>
  /\ PreTop.action = "create_sale"

\* The sales file is the file before the turn plus the staged sale, which
\* create_sale stamped with created_at.
StagedSaleAppended ==
  /\ Len(sales) = Len(last.pre_sales) + 1
  /\ SubSeq(sales, 1, Len(last.pre_sales)) = last.pre_sales
  /\ [sales[Len(sales)] EXCEPT !.created_at = Absent] = PreTop.data
  /\ sales[Len(sales)].created_at \in {S(t) : t \in Timestamps}

\* The response is the success text with the staged sale's id and total.
SaleSuccessResponse ==
  /\ last.returned.kind = "sale_created"
  /\ last.returned.data[1].id = PreTop.data.id
  /\ last.returned.data[1].total = PreTop.data.total

\* C21 as stated: confirming a staged valid create_sale appends exactly that
\* sale, answers with the success text naming id and total, and leaves the
\* pending stack empty.
C21_Original ==
  ConfirmedCreateSale
    => /\ StagedSaleAppended
       /\ SaleSuccessResponse
       /\ pending_actions = << >>

\* C21 amended: confirming a staged valid create_sale leaves the pending
\* stack empty; when the sales file is written, exactly that sale (stamped
\* with created_at) is appended and the response is the success text with
\* its id and total; when the write fails the response is the failure text
\* and no sale is added.
C21_ConfirmCreateSale ==
  ConfirmedCreateSale
    => /\ pending_actions = << >>
       /\ IF last.save = "ok"
            THEN StagedSaleAppended /\ SaleSuccessResponse
            ELSE /\ last.returned.kind = "sale_create_failed"
                 /\ last.returned.message = "Failed to save"
                 /\ sales \in {last.pre_sales, << >>}

\* C21 witness: a staged sale was confirmed with "yes" and is the last
\* record of the sales file, also when the file already held a sale of the
\* same id.
C21_Witness ==
  /\ ConfirmedCreateSale
  /\ last.text = "yes"
  /\ StagedSaleAppended
  /\ SaleSuccessResponse
  /\ \E i \in 1..Len(last.pre_sales) : last.pre_sales[i].id = PreTop.data.id
  /\ pending_actions = << >>

\* The turn reached the validation stage with a map of entities, and the
\* stage did not raise.
Validated ==
  /\ IsTurn
  /\ last.stage = "handler"
  /\ last.entities.kind = "map"

\* A value is present (not absent, null or empty) and outside the list.
Violates(v, list) ==
  /\ v.k \notin {"absent", "none"}
  /\ v # S("")
  /\ v # N(0)
  /\ \A i \in 1..Len(list) : v # S(list[i])

\* C22: the validation stage reports the category error exactly when a
\* category is present and outside the enumeration, the status error exactly
\* when a status is present and outside {PAID, PENDING, CANCELLED}, both
\* together and category first when both are violated, and nothing for an
\* absent or empty value.
C22_IndependentChecks ==
  Validated
    => last.errors =
         (IF Violates(last.entities.map.category, valid_categories)
            THEN <<"Invalid category">> ELSE << >>)
         \o (IF Violates(last.entities.map.status, valid_statuses)
               THEN <<"Invalid status">> ELSE << >>)

\* C22 witness: category and status both outside their sets, both reported.
C22_Witness ==
  /\ Validated
  /\ last.entities.map.category = S("Bogus")
  /\ last.entities.map.status = S("Bogus")
  /\ last.errors = <<"Invalid category", "Invalid status">>

\* The turn ran the validation-error handler.
RanValidationErrors == RanHandler /\ last.route = "handle_validation_errors"

\* C23: a turn routed to the validation-error handler leaves the pending
\* stack, every context key but the turn counter and every store as they
\* were; the log gains the user text and the response, the counter two.
C23_ValidationErrorFrame ==
  RanValidationErrors
    => /\ pending_actions = PrePending
       /\ staged = last.pre_staged
       /\ dispatched = last.pre_dispatched
       /\ SameContextButCount(context, last.pre.context)
       /\ context.conversation_count = last.pre.context.conversation_count + 2
       /\ StoresUnchanged
       /\ SubSeq(messages, 1, Len(last.pre.messages)) = last.pre.messages
       /\ Len(messages) = Len(last.pre.messages) + 2

\* C23 witness: a turn with a validation error while an action was pending;
\* the action is still pending.
C23_Witness ==
  /\ RanValidationErrors
  /\ last.intent \in {"create_product", "search_sales"}
  /\ PrePending # << >>
  /\ pending_actions = PrePending

\* The turn ran the confirmation executor with something on the stack.
ConfirmedPending ==
  /\ RanHandler
  /\ last.route = "execute_confirmation"
  /\ PrePending # << >>

\* The tags of the actions on a pending stack, bottom first.
TagsOf(stack) == [i \in 1..Len(stack) |-> stack[i].tag]

StrictlyIncreasing(seq) ==
  \A i, j \in 1..Len(seq) : i < j => seq[i] < seq[j]

\* C26: a confirmation hands exactly the newest pending action to its store
\* and empties the stack, so that the actions staged before it are dropped;
\* and no dropped action comes back: the actions are dispatched in the order
\* they were staged, and everything on the stack was staged after everything
\* dispatched so far.
C26_NewestOnly ==
  /\ StrictlyIncreasing(dispatched)
  /\ StrictlyIncreasing(TagsOf(pending_actions))
  /\ \A i \in 1..Len(pending_actions), j \in 1..Len(dispatched) :
        dispatched[j] < pending_actions[i].tag
  /\ ConfirmedPending
       => /\ dispatched = Append(last.pre_dispatched, PreTop.tag)
          /\ pending_actions = << >>
          /\ \A i \in 1..(Len(PrePending) - 1) :
                PrePending[i].tag \notin Range(dispatched)
          /\ last.returned.kind \in {"product_created", "sale_created"}
               => last.returned.data = <<PreTop.data>>
          /\ Len(products) + Len(sales)
               <= Len(last.pre_products) + Len(last.pre_sales) + 1

\* C26 witness: two actions of different kinds were pending, the
\* confirmation committed the newer one and only that one.
C26_Witness ==
  /\ ConfirmedPending
  /\ Len(PrePending) = 2
  /\ PrePending[1].action # PrePending[2].action
  /\ last.returned.kind \in {"product_created", "sale_created"}
  /\ dispatched = <<PrePending[2].tag>>
  /\ pending_actions = << >>

\* C27: every action on the pending stack is a create_product with a
\* non-empty id, a non-empty name and a category of the enumeration, or a
\* create_sale with a non-empty id, a non-empty customer_id, a total greater
\* than 0 and a payment status of the enumeration.
C27_PendingValidated ==
  \A i \in 1..Len(pending_actions) :
     \/ /\ pending_actions[i].action = "create_product"
        /\ Truthy(pending_actions[i].data.id)
        /\ Truthy(pending_actions[i].data.name)
        /\ \E c \in Range(valid_categories) :
              pending_actions[i].data.category = S(c)
     \/ /\ pending_actions[i].action = "create_sale"
        /\ Truthy(pending_actions[i].data.id)
        /\ Truthy(pending_actions[i].data.customer_id)
        /\ pending_actions[i].data.total.k = "num"
        /\ pending_actions[i].data.total.n > 0
        /\ \E st \in Range(valid_statuses) :
              pending_actions[i].data.payment_status = S(st)

\* C27 witness: a sale staged with the default status on top of a product.
C27_Witness ==
  /\ Len(pending_actions) = 2
  /\ pending_actions[1].action = "create_product"
  /\ pending_actions[2].action = "create_sale"
  /\ pending_actions[2].data.payment_status = S("PENDING")

\* The text holds a confirmation token and a negation token.
BothTokens ==
  /\ IsTurn
  /\ HasConfirmWord[last.text]
  /\ HasCancelWord[last.text]

\* C28: a text with both a confirmation and a negation token is a
\* confirmation while an action is pending and a cancellation otherwise,
\* and runs the handler of that intent.
C28_ConfirmBeforeCancel ==
  BothTokens
    => /\ last.intent = IF PrePending # << >> THEN "confirm_action"
                        ELSE "cancel_action"
       /\ last.route = IF PrePending # << >> THEN "execute_confirmation"
                       ELSE "handle_cancellation"
       /\ ~last.nlu_called

\* C28 witness: with a sale pending, a text with both tokens committed it.
C28_Witness ==
  /\ BothTokens
  /\ PrePending # << >>
  /\ PreTop.action = "create_sale"
  /\ last.intent = "confirm_action"
  /\ dispatched = <<PreTop.tag>>

\* The turn ran the confirmation executor with an empty pending stack.
ConfirmedNothing ==
  /\ IsTurn
  /\ last.stage = "handler"
  /\ last.route = "execute_confirmation"
  /\ PrePending = << >>

\* C29: the executor on an empty stack does not fail, answers "nothing
\* pending", calls no store and leaves pending stack, context (but for the
\* turn counter) and stores as they were.
C29_NothingPending ==
  ConfirmedNothing
    => /\ ~last.raised
       /\ last.returned = NOTHING_PENDING
       /\ pending_actions = << >>
       /\ dispatched = last.pre_dispatched
       /\ staged = last.pre_staged
       /\ SameContextButCount(context, last.pre.context)
       /\ StoresUnchanged

\* C29 witness: the executor ran on an empty stack twice in a row.
C29_Witness ==
  /\ ConfirmedNothing
  /\ last.returned = NOTHING_PENDING
  /\ last.pre.messages # << >>
  /\ last.pre.messages[Len(last.pre.messages)]
       = [role |-> "assistant", content |-> NOTHING_PENDING]
  /\ StoresUnchanged

\* C30: a turn runs understand, then validate, then the one handler the
\* router named, one of the eight, and then ends; a turn in which a node
\* raised ran a prefix of that sequence; no turn runs a fourth node.
C30_FixedStages ==
  IsTurn
    => /\ Len(last.nodes) <= 3
       /\ last.nodes
            = SubSeq(<<"understand", "validate", last.route>>, 1, Len(last.nodes))
       /\ ~last.raised
            => /\ Len(last.nodes) = 3
               /\ last.nodes[3] \in Handlers
               /\ Successor(last.nodes[3], last.route) = "END"
       /\ last.raised
            => last.stage = IF Len(last.nodes) = 3 THEN "handler"
                            ELSE last.nodes[Len(last.nodes)]

\* C30 witness: a turn with a validation error ran understand, validate and
\* the validation-error handler, and ended.
C30_Witness ==
  /\ IsTurn
  /\ ~last.raised
  /\ last.nodes = <<"understand", "validate", "handle_validation_errors">>
  /\ last.returned.kind = "validation_errors"

\* The store file the last step, a save, wrote to.
StoreWritten == IF last_step.store = "sales" THEN sales ELSE products

\* The last step was a save that reported success.
SavedOk == last_step.op = "save" /\ last_step.success

\* C24: a commit that reports success leaves in the file what it loaded plus
\* its own record, whatever was saved since it loaded; so when the other
\* session's commit saved to the same file in between and reported success
\* too, the file gained one record for the two successes and the other
\* session's record is not the one it gained.
C24_LostUpdate ==
  SavedOk
    => /\ Len(StoreWritten) = Len(last_step.loaded) + 1
       /\ SubSeq(StoreWritten, 1, Len(last_step.loaded)) = last_step.loaded
       /\ StoreWritten[Len(StoreWritten)].id = last_step.data[1].id
       /\ last_step.store = "products"
            => StoreWritten[Len(StoreWritten)] = last_step.data[1]
       /\ chatbots[last_step.s].mem.pending_actions = << >>
       /\ \A i \in 1..Len(last_step.between) :
             Len(StoreWritten) < Len(last_step.loaded) + 1 + i

\* C24 witness: both sessions' commits reported success, the second to save
\* had loaded before the first saved, and the first one's product is not in
\* the catalog.
C24_Witness ==
  /\ SavedOk
  /\ last_step.store = "products"
  /\ Len(last_step.between) = 1
  /\ last_step.between[1] \notin Range(products)
  /\ Len(products) = Len(InitialProducts) + 1
  /\ chatbots[1].committed # {}
  /\ chatbots[2].committed # {}

\* C25: a step of one session (a turn, the load or the save of a commit, a
\* reset) leaves the other session's log, context and pending stack as
\* they were, and a session hands to a store only actions it staged itself.
C25_SessionsIndependent ==
  /\ last_step.op # "none"
       => chatbots[Other(last_step.s)].mem = last_step.pre_other
  /\ \A s \in Sessions : chatbots[s].committed \subseteq chatbots[s].own
  /\ \A s \in Sessions :
        \A i \in 1..Len(chatbots[s].mem.pending_actions) :
           chatbots[s].mem.pending_actions[i].tag \in chatbots[s].own

\* C25 witness: one session's commit succeeded while the other session's
\* staged action stayed pending on its own stack.
C25_Witness ==
  /\ SavedOk
  /\ chatbots[Other(last_step.s)].mem.pending_actions # << >>
  /\ chatbots[Other(last_step.s)].mem = last_step.pre_other
  /\ chatbots[Other(last_step.s)].committed = {}
  /\ chatbots[last_step.s].mem.pending_actions = << >>

\* The turn was routed to the search_product branch of the product agent.
SearchProductTurn ==
  /\ IsTurn
  /\ last.route = "product_agent"
  /\ last.intent = "search_product"

\* The turn was routed to the search_sales branch of the sales agent.
SearchSalesTurn ==
  /\ IsTurn
  /\ last.route = "sales_agent"
  /\ last.intent = "search_sales"

\* C31 as stated: every search_product turn leaves in last_search_results
\* the result list of its search and in last_filters its entity map; every
\* search_sales turn leaves in last_sale the first matching sale, or none.
C31_Original ==
  /\ SearchProductTurn
       => /\ ~last.raised
          /\ context.last_search_results = last.returned.data
          /\ context.last_filters = last.entities
  /\ SearchSalesTurn
       => /\ ~last.raised
          /\ context.last_sale = Take(last.returned.data, 1)

\* A turn that is no confirmation, no cancellation and no new staging: it
\* was not routed to the executor or the cancellation, and pushed nothing.
InterveningTurn ==
  /\ IsTurn
  /\ last.route \notin {"execute_confirmation", "handle_cancellation"}
  /\ staged = last.pre_staged

\* C32: a turn that is no confirmation, no cancellation and no new staging
\* (a search, details, analytics, vendor, general or validation-error turn,
\* also one that failed) leaves the pending stack as it was; and if
\* something is pending after it, a "yes" turn then hands exactly the top
\* action to its store.
C32_PendingSurvives ==
  InterveningTurn
    => /\ pending_actions = PrePending
       /\ pending_actions # << >>
            => \A save \in SaveOutcomes :
                  process_message("yes", World, NluError, save, "text", "t1").w.dispatched
                    = Append(dispatched, PreTop.tag)

\* C32 witness: with a product staged, a search turn found products and
\* left the action pending.
C32_Witness ==
  /\ InterveningTurn
  /\ last.intent = "search_product"
  /\ last.returned.kind = "product_results"
  /\ PrePending # << >>
  /\ PreTop.action = "create_product"
  /\ pending_actions = PrePending

\* C33: while the classifier fails on every call, no turn is classified
\* create_product or create_sale (a text with a create word and "product"
\* or "sale" is a search), nothing is ever staged or dispatched and the
\* stores stay as they were.
C33_FallbackNeverWrites ==
  /\ pending_actions = << >>
  /\ staged = 0
  /\ dispatched = << >>
  /\ products = InitialProducts
  /\ sales = InitialSales
  /\ vendors = InitialVendors
  /\ IsTurn
       => /\ last.intent \notin {"create_product", "create_sale"}
          /\ last.nlu_called => last.nlu = NluError
          /\ (AnyWordIn({"product"}, last.text) /\ ~last.raised /\ last.nlu_called)
               => last.intent = "search_product"
          /\ (AnyWordIn({"sale"}, last.text) /\ ~last.raised /\ last.nlu_called)
               => last.intent \in {"search_product", "search_sales"}

\* C33 witness: "add product" was classified by the fallback as a search.
C33_Witness ==
  /\ IsTurn
  /\ last.text = "add product"
  /\ last.nlu = NluError
  /\ last.intent = "search_product"
  /\ last.route = "product_agent"
  /\ pending_actions = << >>

\* C34 as stated: a turn of an enumerated intent that reached its handler
\* without a validation error and without failing returns a non-empty text.
\* Violated: get_recommendations is routed to analytics_agent, which
\* answers get_analytics only, and update_product / update_sale have no
\* branch in the product and sales agents, so agent_response stays "".
C34_Original ==
  (/\ RanHandler
   /\ ~last.raised
   /\ last.intent \in Intents
   /\ last.errors = << >>)
    => last.returned.kind # "empty"

\* C35: every action on the pending stack is a create_product or a
\* create_sale; an update_product or update_sale turn stages nothing, and
\* no turn returns the reply of one of the executor's update branches.
C35_OnlyCreatesStaged ==
  /\ \A i \in 1..Len(pending_actions) :
        pending_actions[i].action \in {"create_product", "create_sale"}
  /\ IsTurn => last.returned.kind # "update_failed"
  /\ (IsTurn /\ last.intent \in {"update_product", "update_sale"})
       => /\ staged = last.pre_staged
          /\ pending_actions = PrePending

\* C35 witness: an update_product turn ran its handler over a non-empty
\* pending stack and left the stack as it was.
C35_Witness ==
  /\ RanHandler
  /\ ~last.raised
  /\ last.intent = "update_product"
  /\ last.route = "product_agent"
  /\ PrePending # << >>
  /\ pending_actions = PrePending

\* C36: conversation_count equals the length of the message log in every
\* state; both are 0 after construction and after reset, and a turn moves
\* both by the same amount: 2, or 1 when the graph raised and no assistant
\* message was logged.
C36_CountIsLogLength ==
  /\ context.conversation_count = Len(messages)
  /\ last.op \in {"none", "reset"}
       => (messages = << >> /\ context.conversation_count = 0)
  /\ IsTurn
       => /\ Len(messages) - Len(last.pre.messages)
               = (IF last.raised THEN 1 ELSE 2)
          /\ context.conversation_count - last.pre.context.conversation_count
               = Len(messages) - Len(last.pre.messages)

\* C36 witness: after a turn that raised, following a turn that did not,
\* the log holds three messages and the counter is 3.
C36_Witness ==
  /\ IsTurn
  /\ last.raised
  /\ Len(last.pre.messages) = 2
  /\ Len(messages) = 3
  /\ context.conversation_count = 3

\* C37: a turn the local overrides classify (confirmation token with a
\* pending action, or else a negation token) is validated without errors
\* and reaches the executor, respectively the cancellation node, never the
\* validation-error handler; the pending stack is empty after it.
C37_OverridesPassValidation ==
  (ConfirmOverride \/ CancelOverride)
    => /\ ~last.nlu_called
       /\ last.intent = (IF ConfirmOverride THEN "confirm_action" ELSE "cancel_action")
       /\ last.errors = << >>
       /\ RanHandler
       /\ last.route = (IF ConfirmOverride THEN "execute_confirmation"
                        ELSE "handle_cancellation")
       /\ ~last.raised
       /\ pending_actions = << >>

\* C37 witness: a staged product with a category was confirmed by the
\* override; the turn's entities are the pending action and no error was
\* produced.
C37_Witness ==
  /\ ConfirmOverride
  /\ PreTop.action = "create_product"
  /\ PreTop.data.category = S("Home")
  /\ last.entities.kind = "pending"
  /\ last.errors = << >>
  /\ last.route = "execute_confirmation"
  /\ pending_actions = << >>

\* No two records of a store list carry the same id.
DistinctIds(db) ==
  \A i, j \in 1..Len(db) : db[i].id = db[j].id => i = j

\* The id of the staged record is already in the store the turn started with.
IdAlreadyIn(db) == \E i \in 1..Len(db) : db[i].id = PreTop.data.id

\* C38: the catalog never holds two products with the same id; confirming a
\* create_product whose id is already in the catalog answers with the
\* failure response and leaves the catalog as it was.
C38_ProductIdsDistinct ==
  /\ DistinctIds(products)
  /\ (ConfirmedCreateProduct /\ IdAlreadyIn(last.pre_products))
       => /\ last.returned.kind = "product_create_failed"
          /\ products = last.pre_products

\* C38 witness: the session created a product and then confirmed a second
\* create_product with the same id, which was rejected.
C38_Witness ==
  /\ ConfirmedCreateProduct
  /\ IdAlreadyIn(last.pre_products)
  /\ Len(last.pre_products) = Len(InitialProducts) + 1
  /\ last.pre_products[Len(last.pre_products)].id = PreTop.data.id
  /\ last.returned.kind = "product_create_failed"
  /\ products = last.pre_products

\* C39 as stated: the sales store never holds two sales with the same id.
\* Violated: create_sale appends without looking for the id.
C39_Original == DistinctIds(sales)

\* What the claim requires of a stored product, stated on the record.
ValidProduct(p) ==
  /\ p.id.k = "str" /\ p.id.s # ""
  /\ p.name.k = "str" /\ p.name.s # ""
  /\ p.category.k = "str"
  /\ p.category.s \in {"Electronics", "Grocery", "Fashion", "Home", "Sports"}

\* What the claim requires of a stored sale, stated on the record.
ValidSale(r) ==
  /\ r.id.k = "str" /\ r.id.s # ""
  /\ r.customer_id.k = "str" /\ r.customer_id.s # ""
  /\ r.total.k = "num" /\ r.total.n > 0
  /\ r.payment_status.k = "str"
  /\ r.payment_status.s \in {"PAID", "PENDING", "CANCELLED"}

\* Candidate records handed to the stores directly, valid and invalid.
ProductCandidates ==
  {Product(id, name, category, None) :
     id \in {S("p9"), S(""), None}, name \in {S("Widget"), None},
     category \in {S("Home"), S("Bogus"), S(""), None}}

SaleCandidates ==
  {Sale(id, customer, total, status, Absent) :
     id \in {S("s9"), None}, customer \in {S("c1"), S("")},
     total \in {N(5), N(0), N(-1), None}, status \in {S("PAID"), S("Bogus"), None}}

\* C40: every record of the catalog and of the sales store satisfies the
\* store's validation, the record a confirmation has just added included;
\* and a record that fails the store's validation is refused by
\* create_product / create_sale with the store left as it is, whatever the
\* file write would have done.
C40_CommittedRecordsValid ==
  /\ \A i \in 1..Len(products) : ValidProduct(products[i])
  /\ \A i \in 1..Len(sales) : ValidSale(sales[i])
  /\ (ConfirmedPending /\ last.returned.kind \in {"product_created", "sale_created"})
       => /\ PreTop.action = "create_product" => ValidProduct(PreTop.data)
          /\ PreTop.action = "create_sale" => ValidSale(PreTop.data)
  /\ \A rec \in ProductCandidates, o \in SaveOutcomes :
        IF ValidProduct(rec)
          THEN create_product(products, rec, o).saved
          ELSE /\ ~create_product(products, rec, o).success
               /\ create_product(products, rec, o).db = products
               /\ ~create_product(products, rec, o).saved
  /\ \A rec \in SaleCandidates, o \in SaveOutcomes :
        IF ValidSale(rec)
          THEN create_sale(sales, rec, o, "t1").saved
          ELSE /\ ~create_sale(sales, rec, o, "t1").success
               /\ create_sale(sales, rec, o, "t1").db = sales
               /\ ~create_sale(sales, rec, o, "t1").saved

\* C40 witness: a confirmation has just added a product to a catalog that
\* already held a sale added by an earlier confirmation.
C40_Witness ==
  /\ ConfirmedPending
  /\ PreTop.action = "create_product"
  /\ last.returned.kind = "product_created"
  /\ products = Append(last.pre_products, PreTop.data)
  /\ ValidProduct(products[Len(products)])
  /\ Len(sales) = Len(InitialSales) + 1
  /\ ValidSale(sales[Len(sales)])

====
